---- MODULE Spec2Model ----
(***************************************************************************)
(* State-machine model of the REST services of APIs-aws-swagger:           *)
(*   usuarios   (src/unnamed/part_002, lines 468-831)                      *)
(*   productos  (src/unnamed/part_002, lines 1-466)                        *)
(*   categorias (src/unnamed/part_001, lines 224-592)                      *)
(*   boletas    (src/unnamed/part_001, lines 1-222)                        *)
(*   detalle    (src/index_detalleBoleta.js)                               *)
(* The services share one relational store; its tables, sequences and      *)
(* unique constraints are the state.  Every handler that issues one SQL    *)
(* statement is one action; a handler that awaits several statements is    *)
(* one action per statement, so that other requests interleave.            *)
(***************************************************************************)
EXTENDS Integers, Sequences, FiniteSets, TLC

VARIABLES
    usuario,          \* table usuario: set of rows
    usuario_id_seq,   \* sequence behind usuario.id SERIAL (last value given)
    clock,            \* the NumericDate clock jsonwebtoken reads (hours)
    emitidos,         \* the tokens the client holds (the last login's)
    categoria,        \* table categoria: set of rows
    categoria_id_seq, \* sequence behind categoria.id SERIAL
    producto,         \* table producto: set of rows
    producto_id_seq,  \* sequence behind producto.id SERIAL
    enCurso,          \* requests suspended at an await, by slot
    boleta,           \* table boleta: set of rows
    boleta_id_seq,    \* sequence behind boleta.id SERIAL
    numero_seq,       \* sequence behind the default of boleta.numero_compra
    columnaNumero,    \* which bootstrap created boleta: type of numero_compra
    creadas,          \* bodies of the 201 responses of POST /boletas, in order
    resp              \* response sent by the last step, if it sent one

varsUsuarios == <<usuario, usuario_id_seq, clock, emitidos>>
varsCatalogo == <<categoria, categoria_id_seq, producto, producto_id_seq,
                  enCurso>>
varsBoletas == <<boleta, boleta_id_seq, numero_seq, columnaNumero, creadas>>

vars == <<varsUsuarios, varsCatalogo, varsBoletas, resp>>

-----------------------------------------------------------------------------
(* Bounds of the exploration.                                              *)
MaxSeq == 2          \* values drawn from usuario_id_seq
MaxClock == 9        \* hours the clock runs

-----------------------------------------------------------------------------
(* JavaScript values.  Every value carries the three fields t, n, s so     *)
(* that values of different types compare without a type error.            *)
Undefined == [t |-> "undefined", n |-> 0, s |-> ""]
Null == [t |-> "null", n |-> 0, s |-> ""]
Str(x) == [t |-> "string", n |-> 0, s |-> x]
Num(x) == [t |-> "number", n |-> x, s |-> ""]
Bool(b) == [t |-> "boolean", n |-> (IF b THEN 1 ELSE 0), s |-> ""]
NaN == [t |-> "number", n |-> 0, s |-> "NaN"]

\* ToBoolean: undefined, null, "", 0, NaN and false are falsy; objects and
\* arrays are truthy.
Truthy(v) ==
    CASE v.t = "undefined" -> FALSE
      [] v.t = "null" -> FALSE
      [] v.t = "string" -> v.s # ""
      [] v.t = "number" -> v.n # 0 /\ v.s # "NaN"
      [] v.t = "boolean" -> v.n = 1
      [] OTHER -> TRUE

\* a || b
Or(a, b) == IF Truthy(a) THEN a ELSE b

\* a ?? b
Coalesce(a, b) == IF a.t \in {"undefined", "null"} THEN b ELSE a

NoResp == [op |-> "none", status |-> 0]

-----------------------------------------------------------------------------
(* Users service.                                                          *)

SECRET_KEY == "CLAVE_SUPER_SECRETA"
ExpiresIn == 8

Correos == {"ana@x.cl", "beto@x.cl"}
Passwords == {"p1", "p2"}

\* A normalisation that maps only undefined to null.
normalizeSoloUndefined(val) == IF val = Undefined THEN Null ELSE val

\* Convierte "" o undefined a null
normalizeEmptyToNull(val) ==
    IF val = Str("") \/ val = Undefined THEN Null ELSE val

normalizarUsuario(row) ==
    [id |-> row.id, correo |-> row.correo, password |-> row.password,
     nombre |-> row.nombre, fecha_nacimiento |-> row.fecha_nacimiento,
     tipo_usuario |-> row.tipo_usuario, historial |-> row.historial,
     historialCompras |-> row.historial]

\* A usuario table whose correo column carries no unique index.
UsuarioSinUnique(tabla, correo) == FALSE

\* correo ... UNIQUE: the store refuses (23505) a row whose correo is
\* already stored.
UsuarioUniqueViolation(tabla, correo) ==
    \E r \in tabla : r.correo = correo

\* POST /usuarios/register
Register(body) ==
    LET nombre == normalizeEmptyToNull(body.nombre)
        correo == normalizeEmptyToNull(body.correo)
        password == normalizeEmptyToNull(body.password)
        fechaNacimiento == normalizeEmptyToNull(
                               Coalesce(body.fechaNacimiento,
                                        body.fecha_nacimiento))
        tipoUsuario == Or(normalizeEmptyToNull(
                              Coalesce(body.tipoUsuario, body.tipo_usuario)),
                          Str("cliente"))
        row == [id |-> usuario_id_seq + 1, correo |-> correo,
                password |-> password, nombre |-> nombre,
                fecha_nacimiento |-> fechaNacimiento,
                tipo_usuario |-> tipoUsuario, historial |-> <<>>]
    IN
    IF ~Truthy(correo) \/ ~Truthy(password)
    THEN /\ resp' = [op |-> "register", status |-> 400,
                     body |-> [message |-> "Correo y password requeridos"]]
         /\ UNCHANGED <<varsUsuarios, varsCatalogo, varsBoletas>>
    ELSE /\ usuario_id_seq < MaxSeq
         \* the default nextval('usuario_id_seq') is drawn before the
         \* unique index is checked
         /\ usuario_id_seq' = usuario_id_seq + 1
         /\ IF UsuarioUniqueViolation(usuario, correo)
            THEN /\ resp' = [op |-> "register", status |-> 409,
                             body |-> [message |-> "Usuario ya existe"]]
                 /\ UNCHANGED usuario
            ELSE /\ usuario' = usuario \cup {row}
                 /\ resp' = [op |-> "register", status |-> 201,
                             body |-> [ok |-> TRUE,
                                       user |-> normalizarUsuario(row)]]
         /\ UNCHANGED <<clock, emitidos, varsCatalogo, varsBoletas>>

\* HMAC signature of a payload under a key: a value that determines both.
Firma(usr, iat, exp, key) == [key |-> key, usuario |-> usr, iat |-> iat, exp |-> exp]

\* jwt.sign({ usuario: correo }, SECRET_KEY, { expiresIn: "8h" })
JwtSign(correo, key, now) ==
    [forma |-> "jwt", usuario |-> correo, iat |-> now, exp |-> now + ExpiresIn,
     firma |-> Firma(correo, now, now + ExpiresIn, key)]

\* What SELECT * FROM usuario WHERE correo=$1 AND password=$2 returns.
LoginRows(tabla, correo, password) ==
    {r \in tabla : r.correo = correo /\ r.password = password}

\* A login that tells a wrong password from an unknown correo.
LoginRespDelator(tabla, correo, password, now) ==
    LET rows == LoginRows(tabla, correo, password) IN
    IF rows = {}
    THEN [op |-> "login", status |-> 401,
          entrada |-> [correo |-> correo, password |-> password],
          body |-> [message |->
                      IF \E r \in tabla : r.correo = correo
                      THEN "Password incorrecta"
                      ELSE "Credenciales invalidas"]]
    ELSE LET userRow == CHOOSE r \in rows : TRUE IN
         [op |-> "login", status |-> 200,
          entrada |-> [correo |-> correo, password |-> password],
          body |-> [token |-> JwtSign(correo, SECRET_KEY, now),
                    user |-> normalizarUsuario(userRow)]]

\* The response of POST /usuarios/login in store state tabla at time now.
LoginResp(tabla, correo, password, now) ==
    LET rows == LoginRows(tabla, correo, password) IN
    IF rows = {}
    THEN [op |-> "login", status |-> 401,
          entrada |-> [correo |-> correo, password |-> password],
          body |-> [message |-> "Credenciales invalidas"]]
    ELSE LET userRow == CHOOSE r \in rows : TRUE IN
         [op |-> "login", status |-> 200,
          entrada |-> [correo |-> correo, password |-> password],
          body |-> [token |-> JwtSign(correo, SECRET_KEY, now),
                    user |-> normalizarUsuario(userRow)]]

\* POST /usuarios/login
Login(correo, password) ==
    LET r == LoginResp(usuario, correo, password, clock) IN
    /\ resp' = r
    /\ IF r.status = 200
       THEN emitidos' = {r.body.token}
       ELSE UNCHANGED emitidos
    /\ UNCHANGED <<usuario, usuario_id_seq, clock, varsCatalogo, varsBoletas>>

NoFirma == Firma(Str(""), 0, 0, "")
NoJwt == [forma |-> "ninguno", usuario |-> Str(""), iat |-> 0, exp |-> 0,
          firma |-> NoFirma]
Malformado == [forma |-> "malformado", usuario |-> Str(""), iat |-> 0, exp |-> 0,
               firma |-> NoFirma]

\* A header value is the words separated by single spaces; a word is text
\* or a JWT.
Pal(w) == [w |-> w, jwt |-> NoJwt]
Tok(j) == [w |-> "", jwt |-> j]
SinHeader == [presente |-> FALSE, partes |-> <<>>]
Header(partes) == [presente |-> TRUE, partes |-> partes]
Bearer(j) == Header(<<Pal("Bearer"), Tok(j)>>)

\* A verification that still accepts at the instant of expiry.
JwtVerifyTardio(parte, key, now) ==
    CASE parte = Undefined \/ parte.jwt.forma # "jwt" ->
             [err |-> TRUE, usuario |-> Undefined]
      [] OTHER ->
         LET j == parte.jwt IN
         IF j.firma # Firma(j.usuario, j.iat, j.exp, key)
         THEN [err |-> TRUE, usuario |-> Undefined]
         ELSE IF now > j.exp
         THEN [err |-> TRUE, usuario |-> Undefined]
         ELSE [err |-> FALSE, usuario |-> j.usuario]

\* jwt.verify(token, SECRET_KEY, cb): err, or the decoded payload.
JwtVerify(parte, key, now) ==
    CASE parte = Undefined \/ parte.jwt.forma # "jwt" ->
             [err |-> TRUE, usuario |-> Undefined]
      [] OTHER ->
         LET j == parte.jwt IN
         IF j.firma # Firma(j.usuario, j.iat, j.exp, key)
         THEN [err |-> TRUE, usuario |-> Undefined]
         ELSE IF now >= j.exp
         THEN [err |-> TRUE, usuario |-> Undefined]
         ELSE [err |-> FALSE, usuario |-> j.usuario]

\* authHeader.split(" ")[1]
SplitSegundo(h) == IF Len(h.partes) >= 2 THEN h.partes[2] ELSE Undefined

\* A middleware whose error branch lacks the return and falls through.
verificarTokenSinReturn(authHeader, now) ==
    IF ~authHeader.presente \/ authHeader.partes = <<Pal("")>>
    THEN [status |-> 403, message |-> "Token requerido", usuario |-> Undefined]
    ELSE LET v == JwtVerify(SplitSegundo(authHeader), SECRET_KEY, now) IN
         [status |-> 0, message |-> "", usuario |-> v.usuario]

\* Middleware JWT: status 0 stands for next(), with req.usuario attached.
verificarToken(authHeader, now) ==
    IF ~authHeader.presente \/ authHeader.partes = <<Pal("")>>
    THEN [status |-> 403, message |-> "Token requerido", usuario |-> Undefined]
    ELSE LET v == JwtVerify(SplitSegundo(authHeader), SECRET_KEY, now) IN
         IF v.err
         THEN [status |-> 401, message |-> "Token invalido", usuario |-> Undefined]
         ELSE [status |-> 0, message |-> "", usuario |-> v.usuario]

\* SELECT * FROM usuario ORDER BY id, each row through normalizarUsuario.
RECURSIVE OrdenadosPorId(_)
OrdenadosPorId(rows) ==
    IF rows = {} THEN <<>>
    ELSE LET m == CHOOSE r \in rows : \A o \in rows : r.id <= o.id IN
         <<normalizarUsuario(m)>> \o OrdenadosPorId(rows \ {m})

\* The response of GET /usuarios behind verificarToken.
GetUsuariosResp(tabla, authHeader, now) ==
    LET v == verificarToken(authHeader, now) IN
    IF v.status # 0
    THEN [op |-> "GET /usuarios", status |-> v.status, handler |-> FALSE,
          reqUsuario |-> Undefined, entrada |-> [header |-> authHeader, id |-> 0],
          body |-> [message |-> v.message]]
    ELSE [op |-> "GET /usuarios", status |-> 200, handler |-> TRUE,
          reqUsuario |-> v.usuario,
          entrada |-> [header |-> authHeader, id |-> 0],
          body |-> [usuarios |-> OrdenadosPorId(tabla)]]

\* The response of GET /usuarios/:id behind verificarToken.
GetUsuarioResp(tabla, authHeader, id, now) ==
    LET v == verificarToken(authHeader, now)
        rows == {r \in tabla : r.id = id} IN
    IF v.status # 0
    THEN [op |-> "GET /usuarios/:id", status |-> v.status, handler |-> FALSE,
          reqUsuario |-> Undefined, entrada |-> [header |-> authHeader, id |-> id],
          body |-> [message |-> v.message]]
    ELSE IF rows = {}
    THEN [op |-> "GET /usuarios/:id", status |-> 404, handler |-> TRUE,
          reqUsuario |-> v.usuario,
          entrada |-> [header |-> authHeader, id |-> id],
          body |-> [message |-> "Usuario no encontrado"]]
    ELSE [op |-> "GET /usuarios/:id", status |-> 200, handler |-> TRUE,
          reqUsuario |-> v.usuario,
          entrada |-> [header |-> authHeader, id |-> id],
          body |-> [user |-> normalizarUsuario(CHOOSE r \in rows : TRUE)]]

GetUsuarios(authHeader) ==
    /\ resp' = GetUsuariosResp(usuario, authHeader, clock)
    /\ UNCHANGED <<varsUsuarios, varsCatalogo, varsBoletas>>

GetUsuario(authHeader, id) ==
    /\ resp' = GetUsuarioResp(usuario, authHeader, id, clock)
    /\ UNCHANGED <<varsUsuarios, varsCatalogo, varsBoletas>>

\* Time passes; the response on display belongs to the instant it was sent.
Tick ==
    /\ clock < MaxClock
    /\ clock' = clock + 1
    /\ resp' = NoResp
    /\ UNCHANGED <<usuario, usuario_id_seq, emitidos, varsCatalogo,
                   varsBoletas>>

\* What a client can do to a token it holds: present it as issued, or with
\* the signature of another key, the payload re-targeted, or the expiry moved.
Alteraciones(j) ==
    {[j EXCEPT !.firma = Firma(j.usuario, j.iat, j.exp, "OTRA_CLAVE")]}
    \cup {[j EXCEPT !.usuario = Str(c)] : c \in Correos \ {j.usuario.s}}
    \cup {[j EXCEPT !.exp = j.exp + 1]}

Headers ==
    {SinHeader, Header(<<Pal("")>>), Header(<<Pal("Bearer")>>),
     Bearer(Malformado)}
    \cup {Bearer(j) : j \in emitidos}
    \cup {Header(<<Tok(j)>>) : j \in emitidos}
    \cup {Bearer(a) : a \in UNION {Alteraciones(j) : j \in emitidos}}

JsCorreos == {Undefined, Str("")} \cup {Str(c) : c \in Correos}
JsPasswords == {Undefined} \cup {Str(p) : p \in Passwords}

BodiesRegister ==
    [correo : JsCorreos, password : JsPasswords, nombre : {Undefined},
     fechaNacimiento : {Undefined}, fecha_nacimiento : {Undefined},
     tipoUsuario : {Undefined}, tipo_usuario : {Undefined}]

\* The other services' tables, empty and untouched.
CatalogoVacio ==
    /\ categoria = {}
    /\ categoria_id_seq = 0
    /\ producto = {}
    /\ producto_id_seq = 0
    /\ enCurso = <<>>

BoletasVacio ==
    /\ boleta = {}
    /\ boleta_id_seq = 0
    /\ numero_seq = 0
    /\ columnaNumero = "SERIAL"
    /\ creadas = <<>>

UsuariosVacio ==
    /\ usuario = {}
    /\ usuario_id_seq = 0
    /\ clock = 0
    /\ emitidos = {}

InitUsuarios ==
    /\ UsuariosVacio
    /\ CatalogoVacio
    /\ BoletasVacio
    /\ resp = NoResp

\* The users service at one instant: registrations, logins and reads.
NextUsuarios ==
    \/ \E body \in BodiesRegister : Register(body)
    \/ \E c \in JsCorreos, p \in JsPasswords : Login(c, p)
    \/ \E h \in Headers : GetUsuarios(h)
    \/ \E h \in Headers, id \in 1..MaxSeq : GetUsuario(h, id)

SpecUsuarios == InitUsuarios /\ [][NextUsuarios]_vars

\* The store after ana and beto registered, in that order.
UsuarioRow(id, correo, password) ==
    [id |-> id, correo |-> Str(correo), password |-> Str(password),
     nombre |-> Null, fecha_nacimiento |-> Null,
     tipo_usuario |-> Str("cliente"), historial |-> <<>>]

InitSesion ==
    /\ usuario = {UsuarioRow(1, "ana@x.cl", "p1"),
                  UsuarioRow(2, "beto@x.cl", "p2")}
    /\ usuario_id_seq = 2
    /\ clock = 0
    /\ emitidos = {}
    /\ CatalogoVacio
    /\ BoletasVacio
    /\ resp = NoResp

\* Sessions over time: logins, token-guarded reads and the passing of time.
NextSesion ==
    \/ \E c \in JsCorreos, p \in JsPasswords : Login(c, p)
    \/ \E h \in Headers : GetUsuarios(h)
    \/ \E h \in Headers, id \in 1..MaxSeq : GetUsuario(h, id)
    \/ Tick

SpecSesion == InitSesion /\ [][NextSesion]_vars

-----------------------------------------------------------------------------
(* Claims about the users service.                                         *)

\* C1 as stated: at most one stored user row exists per email, and every
\* register whose email is that of a stored user answers 409, inserts no row
\* and leaves the stored users as they were.
C1_Original ==
    /\ [](\A r1, r2 \in usuario : r1.correo = r2.correo => r1 = r2)
    /\ [][\A body \in BodiesRegister :
            (Register(body) /\ \E r \in usuario : r.correo = body.correo)
                => (resp'.status = 409 /\ usuario' = usuario)]_vars

\* C1 (amended): at most one stored user row exists per email; a register
\* whose email is that of a stored user inserts no row and leaves the stored
\* users as they were, and it answers 409 when its password is non-empty
\* (400 when the password is missing or empty).
C1_RegistroUnico ==
    /\ [](\A r1, r2 \in usuario : r1.correo = r2.correo => r1 = r2)
    /\ [][\A body \in BodiesRegister :
            (Register(body) /\ \E r \in usuario : r.correo = body.correo)
                => /\ usuario' = usuario
                   /\ resp'.status =
                        (IF body.password \in {Undefined, Str("")}
                         THEN 400 ELSE 409)]_vars

\* A second register with a stored email was answered 409.
C1_Witness ==
    /\ resp.op = "register"
    /\ resp.status = 409
    /\ usuario # {}

\* C2: a login that fails answers 401 with one and the same body, whether
\* the correo is stored with another password or is not stored at all.
C2_LoginUniforme ==
    /\ \A c1, c2 \in JsCorreos, p1, p2 \in JsPasswords :
         LET r1 == LoginResp(usuario, c1, p1, clock)
             r2 == LoginResp(usuario, c2, p2, clock) IN
         ( /\ \E r \in usuario : r.correo = c1
           /\ ~\E r \in usuario : r.correo = c1 /\ r.password = p1
           /\ ~\E r \in usuario : r.correo = c2 )
         => /\ r1.status = 401
            /\ r2.status = 401
            /\ r1.body = r2.body
    /\ (resp.op = "login" /\ resp.status # 200)
         => /\ resp.status = 401
            /\ resp.body = [message |-> "Credenciales invalidas"]

\* A login with a stored correo and a wrong password was refused.
C2_Witness ==
    /\ resp.op = "login"
    /\ resp.status = 401
    /\ \E r \in usuario : r.correo = resp.entrada.correo

\* The clock is before the 8 hours since the issue of the token.
DentroDeVentana(j) == clock < j.iat + ExpiresIn

\* C3: the token of a successful login embeds the login correo; GET /usuarios
\* and GET /usuarios/:id accept it at every time before 8 hours have passed
\* since its issue, refuse it from then on, and refuse it at any time when
\* its signature was altered.
C3_VentanaToken ==
    /\ (resp.op = "login" /\ resp.status = 200)
         => /\ resp.body.token.usuario = resp.entrada.correo
            /\ resp.body.token.iat = clock
            /\ resp.body.token \in emitidos
    /\ \A j \in emitidos :
         /\ DentroDeVentana(j)
              => /\ GetUsuariosResp(usuario, Bearer(j), clock).status = 200
                 /\ \A id \in 1..MaxSeq :
                      GetUsuarioResp(usuario, Bearer(j), id, clock).status
                          \in {200, 404}
         /\ ~DentroDeVentana(j)
              => /\ GetUsuariosResp(usuario, Bearer(j), clock).status = 401
                 /\ \A id \in 1..MaxSeq :
                      GetUsuarioResp(usuario, Bearer(j), id, clock).status = 401
         /\ \A a \in Alteraciones(j) :
              a.firma # j.firma
              => /\ GetUsuariosResp(usuario, Bearer(a), clock).status = 401
                 /\ \A id \in 1..MaxSeq :
                      GetUsuarioResp(usuario, Bearer(a), id, clock).status = 401

\* A token was accepted in the last hour of its window.
C3_Witness ==
    /\ resp.op = "GET /usuarios"
    /\ resp.status = 200
    /\ \E j \in emitidos :
         /\ resp.entrada.header = Bearer(j)
         /\ clock = j.iat + ExpiresIn - 1

\* The second word of a header is a token a login issued, still in its
\* window.
PortaTokenVigente(h) ==
    /\ h.presente
    /\ Len(h.partes) >= 2
    /\ h.partes[2].jwt \in emitidos
    /\ DentroDeVentana(h.partes[2].jwt)

RespuestasGet(h) ==
    {GetUsuariosResp(usuario, h, clock)}
    \cup {GetUsuarioResp(usuario, h, id, clock) : id \in 1..MaxSeq}

-----------------------------------------------------------------------------
(* Products and categories services.                                       *)

MaxCatSeq == 4       \* values drawn from categoria_id_seq
MaxProdSeq == 2      \* values drawn from producto_id_seq

\* The string that is the decimal numeral of k ("50" is NumStr(50)).
NumStr(k) == [t |-> "string", n |-> k, s |-> "digits"]

\* Number(v)
ToNumber(v) ==
    CASE v.t = "number" -> v
      [] v.t = "string" ->
            IF v.s = "digits" THEN Num(v.n)
            ELSE IF v.s = "" THEN Num(0) ELSE NaN
      [] v.t = "boolean" -> Num(v.n)
      [] v.t = "null" -> Num(0)
      [] OTHER -> NaN

\* A trim that leaves the text as it is.
TrimNada(x) == x

\* String.prototype.trim on the texts the requests carry.
Trim(x) ==
    CASE x = " Ropa " -> "Ropa"
      [] x = "   " -> ""
      [] OTHER -> x

\* A default list that lost its last name.
defaultsCortos == <<"Electronica", "Ropa", "Hogar">>

\* const defaults = ["Electrónica", "Ropa", "Hogar", "Gamer"];
defaults == <<"Electronica", "Ropa", "Hogar", "Gamer">>

NombresCategoria == {"Electronica", "Ropa", "Hogar", "Gamer", "Deportes"}

\* Position of a name under ORDER BY nombre.
Orden(x) ==
    CASE x = "Deportes" -> 1
      [] x = "Electronica" -> 2
      [] x = "Gamer" -> 3
      [] x = "Hogar" -> 4
      [] x = "Ropa" -> 5
      [] OTHER -> 6

\* SELECT nombre FROM categoria ORDER BY nombre, as an array of strings.
RECURSIVE NombresOrdenados(_)
NombresOrdenados(rows) ==
    IF rows = {} THEN <<>>
    ELSE LET m == CHOOSE r \in rows :
                    \A o \in rows : Orden(r.nombre) <= Orden(o.nombre) IN
         <<m.nombre>> \o NombresOrdenados(rows \ {m})

\* A categoria table whose nombre column carries no unique index.
CategoriaSinUnique(tabla, nombre, id) == FALSE

\* nombre VARCHAR(100) UNIQUE NOT NULL: the store refuses (23505) a nombre
\* that another row holds; id is the row being written.
CategoriaUniqueViolation(tabla, nombre, id) ==
    \E r \in tabla : r.nombre = nombre /\ r.id # id

\* A request suspended at an await: its position, what it read so far, and
\* (for the record) whether any other request wrote to the tables since it
\* arrived and what the tables held when it arrived.
Libre == [op |-> "libre", pc |-> 0, id |-> 0, nombre |-> "", solo |-> TRUE,
          antesCat |-> {}, antesProd |-> {}]

Llegada(op, id) ==
    [op |-> op, pc |-> 1, id |-> id, nombre |-> "", solo |-> TRUE,
     antesCat |-> categoria, antesProd |-> producto]

\* The slots after a step of slot i (0: a one-statement request): when the
\* step changed a table, the other suspended requests were interfered with.
Interferidos(slots, i, cambio) ==
    [k \in DOMAIN slots |->
        IF k = i \/ slots[k].op = "libre" \/ ~cambio THEN slots[k]
        ELSE [slots[k] EXCEPT !.solo = FALSE, !.antesCat = {},
                              !.antesProd = {}]]

\* The response of POST /categorias and the table it leaves.  In the
\* store a refused INSERT also draws a value from categoria_id_seq; here
\* the sequence counts the draws that stored a row, which shifts the ids
\* of later rows and keeps them fresh and increasing.
PostCategoriasRes(tabla, seq, body) ==
    LET nombre == body.nombre IN
    IF ~Truthy(nombre) \/ (nombre.t = "string" /\ Trim(nombre.s) = "")
    THEN [status |-> 400, tabla |-> tabla, seq |-> seq,
          body |-> [message |-> "Nombre de categoria requerido"]]
    ELSE IF nombre.t # "string"
    THEN \* nombre.trim is not a function
         [status |-> 500, tabla |-> tabla, seq |-> seq,
          body |-> [message |-> "Error creando categoria"]]
    ELSE IF CategoriaUniqueViolation(tabla, Trim(nombre.s), seq + 1)
    THEN [status |-> 409, tabla |-> tabla, seq |-> seq,
          body |-> [message |-> "Categoria ya existe"]]
    ELSE LET row == [id |-> seq + 1, nombre |-> Trim(nombre.s)] IN
         [status |-> 201, tabla |-> tabla \cup {row}, seq |-> seq + 1,
          body |-> row]

\* POST /categorias
PostCategorias(body) ==
    LET r == PostCategoriasRes(categoria, categoria_id_seq, body) IN
    /\ r.seq <= MaxCatSeq
    /\ categoria' = r.tabla
    /\ categoria_id_seq' = r.seq
    /\ resp' = [op |-> "POST /categorias", status |-> r.status,
                body |-> r.body]
    /\ enCurso' = Interferidos(enCurso, 0, r.tabla # categoria)
    /\ UNCHANGED <<producto, producto_id_seq, varsUsuarios, varsBoletas>>

\* GET /categorias/nombres
GetCategoriasNombres ==
    /\ resp' = [op |-> "GET /categorias/nombres", status |-> 200,
                body |-> [categorias |-> NombresOrdenados(categoria)]]
    /\ UNCHANGED <<varsCatalogo, varsUsuarios, varsBoletas>>

\* A rename that carries the products of the category along.
PutCategoriasEnCascada(id, body) ==
    LET nombre == body.nombre
        rows == {r \in categoria : r.id = id} IN
    /\ nombre.t = "string"
    /\ Trim(nombre.s) # ""
    /\ rows # {}
    /\ ~CategoriaUniqueViolation(categoria, Trim(nombre.s), id)
    /\ LET row == [id |-> id, nombre |-> Trim(nombre.s)] IN
         /\ categoria' = (categoria \ rows) \cup {row}
         /\ producto' = {IF \E c \in rows : r.categoria = Str(c.nombre)
                         THEN [r EXCEPT !.categoria = Str(row.nombre)]
                         ELSE r : r \in producto}
         /\ resp' = [op |-> "PUT /categorias/:id", status |-> 200,
                     body |-> row]
         /\ enCurso' = Interferidos(enCurso, 0, TRUE)
    /\ UNCHANGED <<categoria_id_seq, producto_id_seq, varsUsuarios,
                   varsBoletas>>

\* PUT /categorias/:id
PutCategorias(id, body) ==
    LET nombre == body.nombre
        rows == {r \in categoria : r.id = id} IN
    /\ IF ~Truthy(nombre) \/ (nombre.t = "string" /\ Trim(nombre.s) = "")
       THEN /\ resp' = [op |-> "PUT /categorias/:id", status |-> 400,
                        body |-> [message |-> "Nombre de categoria requerido"]]
            /\ UNCHANGED <<categoria, enCurso>>
       ELSE IF nombre.t # "string"
       THEN /\ resp' = [op |-> "PUT /categorias/:id", status |-> 500,
                        body |-> [message |-> "Error actualizando categoria"]]
            /\ UNCHANGED <<categoria, enCurso>>
       ELSE IF rows = {}
       THEN /\ resp' = [op |-> "PUT /categorias/:id", status |-> 404,
                        body |-> [message |-> "Categoria no encontrada"]]
            /\ UNCHANGED <<categoria, enCurso>>
       ELSE IF CategoriaUniqueViolation(categoria, Trim(nombre.s), id)
       THEN /\ resp' = [op |-> "PUT /categorias/:id", status |-> 409,
                        body |-> [message |->
                                   "Ya existe otra categoria con ese nombre"]]
            /\ UNCHANGED <<categoria, enCurso>>
       ELSE LET row == [id |-> id, nombre |-> Trim(nombre.s)] IN
            /\ categoria' = (categoria \ rows) \cup {row}
            /\ resp' = [op |-> "PUT /categorias/:id", status |-> 200,
                        body |-> row]
            /\ enCurso' = Interferidos(enCurso, 0, categoria' # categoria)
    /\ UNCHANGED <<categoria_id_seq, producto, producto_id_seq, varsUsuarios,
                   varsBoletas>>

\* POST /categorias/seed arrives; its first INSERT is pending.
SeedLlega(i) ==
    /\ enCurso[i].op = "libre"
    /\ enCurso' = [enCurso EXCEPT ![i] = Llegada("seed", 0)]
    /\ resp' = NoResp
    /\ UNCHANGED <<categoria, categoria_id_seq, producto, producto_id_seq,
                   varsUsuarios, varsBoletas>>

\* INSERT INTO categoria (nombre) VALUES ($1) ON CONFLICT (nombre) DO NOTHING
\* for the next default.
SeedInsert(i) ==
    LET q == enCurso[i]
        row == [id |-> categoria_id_seq + 1, nombre |-> defaults[q.pc]]
        conflicto == CategoriaUniqueViolation(categoria, row.nombre, row.id)
    IN
    /\ q.op = "seed"
    /\ q.pc <= Len(defaults)
    /\ conflicto \/ categoria_id_seq < MaxCatSeq
    /\ categoria_id_seq' =
         IF conflicto THEN categoria_id_seq ELSE categoria_id_seq + 1
    /\ categoria' = IF conflicto THEN categoria ELSE categoria \cup {row}
    /\ enCurso' = [Interferidos(enCurso, i, categoria' # categoria)
                      EXCEPT ![i].pc = q.pc + 1]
    /\ resp' = NoResp
    /\ UNCHANGED <<producto, producto_id_seq, varsUsuarios, varsBoletas>>

\* SELECT nombre FROM categoria ORDER BY nombre, and the response.
SeedFin(i) ==
    LET q == enCurso[i] IN
    /\ q.op = "seed"
    /\ q.pc = Len(defaults) + 1
    /\ resp' = [op |-> "POST /categorias/seed", status |-> 200,
                solo |-> q.solo, antesCat |-> q.antesCat,
                antesProd |-> q.antesProd,
                body |-> [ok |-> TRUE,
                          categorias |-> NombresOrdenados(categoria)]]
    /\ enCurso' = [enCurso EXCEPT ![i] = Libre]
    /\ UNCHANGED <<categoria, categoria_id_seq, producto, producto_id_seq,
                   varsUsuarios, varsBoletas>>

\* DELETE /categorias/:id arrives; its SELECT is pending.
DeleteCategoriaLlega(i, id) ==
    /\ enCurso[i].op = "libre"
    /\ enCurso' = [enCurso EXCEPT ![i] = Llegada("delete", id)]
    /\ resp' = NoResp
    /\ UNCHANGED <<categoria, categoria_id_seq, producto, producto_id_seq,
                   varsUsuarios, varsBoletas>>

\* SELECT nombre FROM categoria WHERE id = $1; 404 when no row.
DeleteCategoriaSelect(i) ==
    LET q == enCurso[i]
        rows == {r \in categoria : r.id = q.id} IN
    /\ q.op = "delete"
    /\ q.pc = 1
    /\ IF rows = {}
       THEN /\ resp' = [op |-> "DELETE /categorias/:id", status |-> 404,
                        solo |-> q.solo, id |-> q.id, nombre |-> "",
                        antesCat |-> q.antesCat, antesProd |-> q.antesProd,
                        body |-> [message |-> "Categoria no encontrada"]]
            /\ enCurso' = [enCurso EXCEPT ![i] = Libre]
       ELSE /\ resp' = NoResp
            /\ enCurso' = [enCurso EXCEPT
                             ![i].pc = 2,
                             ![i].nombre = (CHOOSE r \in rows : TRUE).nombre]
    /\ UNCHANGED <<categoria, categoria_id_seq, producto, producto_id_seq,
                   varsUsuarios, varsBoletas>>

\* An UPDATE that lost its WHERE clause.
LimpiarTodos(tabla, nombre) ==
    {[r EXCEPT !.categoria = Null] : r \in tabla}

\* The rows of producto after
\* UPDATE producto SET categoria = NULL WHERE categoria = $1.
LimpiarProductos(tabla, nombre) ==
    {IF r.categoria = Str(nombre) THEN [r EXCEPT !.categoria = Null] ELSE r :
        r \in tabla}

\* A delete that cleans the products, removes the row and answers in one
\* indivisible step.
DeleteCategoriaAtomica(i) ==
    LET q == enCurso[i] IN
    /\ q.op = "delete"
    /\ q.pc = 2
    /\ producto' = LimpiarProductos(producto, q.nombre)
    /\ categoria' = {r \in categoria : r.id # q.id}
    /\ resp' = [op |-> "DELETE /categorias/:id", status |-> 200,
                solo |-> q.solo, id |-> q.id, nombre |-> q.nombre,
                antesCat |-> q.antesCat, antesProd |-> q.antesProd,
                body |-> [ok |-> TRUE]]
    /\ enCurso' = [Interferidos(enCurso, i, TRUE) EXCEPT ![i] = Libre]
    /\ UNCHANGED <<categoria_id_seq, producto_id_seq,
                   varsUsuarios, varsBoletas>>

\* UPDATE producto SET categoria = NULL WHERE categoria = $1.
DeleteCategoriaLimpia(i) ==
    LET q == enCurso[i] IN
    /\ q.op = "delete"
    /\ q.pc = 2
    /\ producto' = LimpiarProductos(producto, q.nombre)
    /\ enCurso' = [Interferidos(enCurso, i, producto' # producto)
                      EXCEPT ![i].pc = 3]
    /\ resp' = NoResp
    /\ UNCHANGED <<categoria, categoria_id_seq, producto_id_seq,
                   varsUsuarios, varsBoletas>>

\* A delete that answers 404 when its DELETE statement matched no row.
DeleteCategoriaBorraEstricta(i) ==
    LET q == enCurso[i] IN
    /\ q.op = "delete"
    /\ q.pc = 3
    /\ categoria' = {r \in categoria : r.id # q.id}
    /\ resp' = [op |-> "DELETE /categorias/:id",
                status |-> IF categoria' = categoria THEN 404 ELSE 200,
                solo |-> q.solo, id |-> q.id, nombre |-> q.nombre,
                antesCat |-> q.antesCat, antesProd |-> q.antesProd,
                body |-> IF categoria' = categoria
                         THEN [message |-> "Categoria no encontrada"]
                         ELSE [ok |-> TRUE]]
    /\ enCurso' = [Interferidos(enCurso, i, categoria' # categoria)
                      EXCEPT ![i] = Libre]
    /\ UNCHANGED <<categoria_id_seq, producto, producto_id_seq,
                   varsUsuarios, varsBoletas>>

\* DELETE FROM categoria WHERE id = $1, and the response.
DeleteCategoriaBorra(i) ==
    LET q == enCurso[i] IN
    /\ q.op = "delete"
    /\ q.pc = 3
    /\ categoria' = {r \in categoria : r.id # q.id}
    /\ resp' = [op |-> "DELETE /categorias/:id", status |-> 200,
                solo |-> q.solo, id |-> q.id, nombre |-> q.nombre,
                antesCat |-> q.antesCat, antesProd |-> q.antesProd,
                body |-> [ok |-> TRUE]]
    /\ enCurso' = [Interferidos(enCurso, i, categoria' # categoria)
                      EXCEPT ![i] = Libre]
    /\ UNCHANGED <<categoria_id_seq, producto, producto_id_seq,
                   varsUsuarios, varsBoletas>>

\* multer: req.file of upload.single("imagen"), absent or stored under
\* a generated filename.
NoFile == [presente |-> FALSE, filename |-> ""]
File(fn) == [presente |-> TRUE, filename |-> fn]

\* `/uploads/${req.file.filename}`
UploadsPath(fn) == "/uploads/" \o fn

\* en_oferta === "true" || en_oferta === true || en_oferta === 1 ||
\* en_oferta === "1"
enOfertaBool(en_oferta) ==
    \/ en_oferta = Str("true")
    \/ en_oferta = Bool(TRUE)
    \/ en_oferta = Num(1)
    \/ en_oferta = NumStr(1)

\* The parameters of INSERT INTO producto, as a row with the given id.
ProductoRow(body, file, id) ==
    [id |-> id,
     codigo |-> Or(body.codigo, Null),
     nombre |-> Or(body.nombre, Null),
     descripcion |-> Or(body.descripcion, Null),
     categoria |-> Or(body.categoria, Null),
     precio |-> IF Truthy(body.precio) THEN ToNumber(body.precio) ELSE Num(0),
     precio_oferta |-> IF Truthy(body.precio_oferta)
                       THEN ToNumber(body.precio_oferta) ELSE Null,
     en_oferta |-> Bool(enOfertaBool(body.en_oferta)),
     stock |-> IF Truthy(body.stock) THEN ToNumber(body.stock) ELSE Num(0),
     stock_critico |-> IF Truthy(body.stock_critico)
                       THEN ToNumber(body.stock_critico) ELSE Num(0),
     imagen_url |-> IF file.presente THEN Str(UploadsPath(file.filename))
                    ELSE Or(body.imagen, Null)]

\* stock and stock_critico are INTEGER columns: the store refuses NaN.
ProductoRechazado(row) == row.stock = NaN \/ row.stock_critico = NaN

\* POST /productos
PostProductos(body, file) ==
    LET row == ProductoRow(body, file, producto_id_seq + 1) IN
    /\ producto_id_seq < MaxProdSeq
    /\ producto_id_seq' = producto_id_seq + 1
    /\ IF ProductoRechazado(row)
       THEN /\ resp' = [op |-> "POST /productos", status |-> 500,
                        entrada |-> body,
                        body |-> [message |-> "Error creando producto"]]
            /\ UNCHANGED <<producto, enCurso>>
       ELSE /\ producto' = producto \cup {row}
            /\ resp' = [op |-> "POST /productos", status |-> 201,
                        entrada |-> body, body |-> row]
            /\ enCurso' = Interferidos(enCurso, 0, TRUE)
    /\ UNCHANGED <<categoria, categoria_id_seq, varsUsuarios, varsBoletas>>

\* A request body of the products service with every field absent.
BodyVacio ==
    [codigo |-> Undefined, nombre |-> Undefined, descripcion |-> Undefined,
     categoria |-> Undefined, precio |-> Undefined,
     precio_oferta |-> Undefined, en_oferta |-> Undefined,
     stock |-> Undefined, stock_critico |-> Undefined, imagen |-> Undefined]

\* Products that name a category, or none.
BodiesProductoCategoria ==
    {[BodyVacio EXCEPT !.categoria = c] :
        c \in {Undefined, Str("Ropa"), Str("Hogar")}}

BodiesCategoria ==
    {[nombre |-> v] :
        v \in {Undefined, Str(""), Str("   "), Str(" Ropa "), Str("Ropa"),
               Str("Deportes")}}

BodiesCascada == {[nombre |-> Str("Ropa")], [nombre |-> Str("Hogar")]}

CatalogoInicial ==
    /\ categoria = {}
    /\ categoria_id_seq = 0
    /\ producto = {}
    /\ producto_id_seq = 0
    /\ enCurso = <<Libre>>

InitCategorias ==
    /\ UsuariosVacio
    /\ BoletasVacio
    /\ CatalogoInicial
    /\ resp = NoResp

\* The categories service alone: create, rename, seed, delete, list.
NextCategorias ==
    \/ \E body \in BodiesCategoria : PostCategorias(body)
    \/ \E id \in 1..MaxCatSeq, body \in BodiesCategoria :
          PutCategorias(id, body)
    \/ GetCategoriasNombres
    \/ \E i \in DOMAIN enCurso : SeedLlega(i)
    \/ \E i \in DOMAIN enCurso : SeedInsert(i)
    \/ \E i \in DOMAIN enCurso : SeedFin(i)
    \/ \E i \in DOMAIN enCurso, id \in 1..MaxCatSeq :
          DeleteCategoriaLlega(i, id)
    \/ \E i \in DOMAIN enCurso : DeleteCategoriaSelect(i)
    \/ \E i \in DOMAIN enCurso : DeleteCategoriaLimpia(i)
    \/ \E i \in DOMAIN enCurso : DeleteCategoriaBorra(i)

SpecCategorias == InitCategorias /\ [][NextCategorias]_vars

\* Categories and the products that name them: create and rename
\* categories, create products, delete categories.
NextCascada ==
    \/ \E body \in BodiesCascada : PostCategorias(body)
    \/ \E id \in 1..MaxCatSeq, body \in BodiesCascada :
          PutCategorias(id, body)
    \/ \E body \in BodiesProductoCategoria : PostProductos(body, NoFile)
    \/ \E i \in DOMAIN enCurso, id \in 1..MaxCatSeq :
          DeleteCategoriaLlega(i, id)
    \/ \E i \in DOMAIN enCurso : DeleteCategoriaSelect(i)
    \/ \E i \in DOMAIN enCurso : DeleteCategoriaLimpia(i)
    \/ \E i \in DOMAIN enCurso : DeleteCategoriaBorra(i)

SpecCascada == InitCategorias /\ [][NextCascada]_vars

-----------------------------------------------------------------------------
(* Claims about the categories service.                                    *)

\* The response on display is that of a DELETE /categorias/:id that
\* succeeded with no other request writing to the tables meanwhile.
DeleteSolo ==
    /\ resp.op = "DELETE /categorias/:id"
    /\ resp.status = 200
    /\ resp.solo

CuatroNombres == {"Electronica", "Ropa", "Hogar", "Gamer"}

Nombres(tabla) == {r.nombre : r \in tabla}

\* What holds of every seed, interfered with or not: it is answered 200 and
\* none of its statements touches a row that exists.
SeedSiempre ==
    /\ [](resp.op = "POST /categorias/seed" => resp.status = 200)
    /\ [][\A i \in DOMAIN enCurso :
            SeedInsert(i) => categoria \subseteq categoria']_vars

\* What holds of a seed that ran alone: existing rows are kept, only missing
\* default names were added, the answer lists the names stored, and a seed
\* started with the four names present (as right after another seed) changes
\* nothing and answers the same list.
SeedSolo ==
    (resp.op = "POST /categorias/seed" /\ resp.solo) =>
        /\ resp.antesCat \subseteq categoria
        /\ \A r \in categoria \ resp.antesCat :
              r.nombre \in CuatroNombres \ Nombres(resp.antesCat)
        /\ resp.body.categorias = NombresOrdenados(categoria)
        /\ CuatroNombres \subseteq Nombres(resp.antesCat)
             => /\ categoria = resp.antesCat
                /\ resp.body.categorias = NombresOrdenados(resp.antesCat)

\* C7 as stated: seed never fails on a duplicate name, leaves the existing
\* categories unchanged, afterwards all four default names are present, and
\* a second seed right after the first changes nothing and answers the same
\* list.
C7_Original ==
    /\ SeedSiempre
    /\ []SeedSolo
    /\ [](resp.op = "POST /categorias/seed"
            => CuatroNombres \subseteq Nombres(categoria))

\* C7 (amended): as stated, except that all four default names are present
\* afterwards when the seed ran without interference (a DELETE or rename
\* between its statements can take a default name away again).
C7_SeedIdempotente ==
    /\ SeedSiempre
    /\ []SeedSolo
    /\ []((resp.op = "POST /categorias/seed" /\ resp.solo)
            => CuatroNombres \subseteq Nombres(categoria))

\* A seed ran alone on a table that held the four names and one more.
C7_Witness ==
    /\ resp.op = "POST /categorias/seed"
    /\ resp.solo
    /\ CuatroNombres \subseteq Nombres(resp.antesCat)
    /\ categoria = resp.antesCat

\* C8: in every reachable state no two category rows have the same name.
C8_NombreUnico ==
    \A r1, r2 \in categoria : r1.nombre = r2.nombre => r1 = r2

\* A rename to the name of another category was refused.
C8_Witness ==
    /\ resp.op = "PUT /categorias/:id"
    /\ resp.status = 409
    /\ Cardinality(categoria) >= 2

-----------------------------------------------------------------------------
(* POST /productos and what it stores.                                     *)

\* Values a client sends for a numeric field: absent, empty, a numeral as
\* text (multipart) or a number (JSON).
EntradasNumericas ==
    {Undefined, Str(""), NumStr(50), Num(50), NumStr(0), Num(0)}

\* Values a client sends for en_oferta.
EntradasEnOferta ==
    {Undefined, Str("true"), Bool(TRUE), Num(1), NumStr(1), Str("false"),
     Bool(FALSE), Num(0), NumStr(0), Str("on")}

\* Request bodies with one field set, and the body with en_oferta="1",
\* stock="50".
BodiesProducto ==
    {[BodyVacio EXCEPT !.en_oferta = v] : v \in EntradasEnOferta}
      \cup {[BodyVacio EXCEPT !.precio = v] : v \in EntradasNumericas}
      \cup {[BodyVacio EXCEPT !.precio_oferta = v] : v \in EntradasNumericas}
      \cup {[BodyVacio EXCEPT !.stock = v] : v \in EntradasNumericas}
      \cup {[BodyVacio EXCEPT !.stock_critico = v] : v \in EntradasNumericas}
      \cup {[BodyVacio EXCEPT !.en_oferta = NumStr(1), !.stock = NumStr(50)]}

NextProductos == \E body \in BodiesProducto : PostProductos(body, NoFile)

SpecProductos == InitCategorias /\ [][NextProductos]_vars

\* An input field that was not sent, or was sent empty.
Ausente(v) == v \in {Undefined, Null, Str("")}

\* The number an input denotes: 50 for 50 and for "50".
ValorNumerico(v) == Num(v.n)

\* C10: POST /productos stores en_oferta as true exactly when the input is
\* one of "true", true, 1, "1"; stores precio, stock and stock_critico as the
\* numeric value of the input, or 0 when absent; and stores precio_oferta as
\* the numeric value of the input, or null when absent.
C10_Coerciones ==
    resp.op = "POST /productos" =>
        /\ resp.status = 201
        /\ resp.body \in producto
        /\ resp.body.en_oferta =
              Bool(resp.entrada.en_oferta
                     \in {Str("true"), Bool(TRUE), Num(1), NumStr(1)})
        /\ \A f \in {"precio", "stock", "stock_critico"} :
              resp.body[f] = IF Ausente(resp.entrada[f]) THEN Num(0)
                             ELSE ValorNumerico(resp.entrada[f])
        /\ resp.body.precio_oferta =
              IF Ausente(resp.entrada.precio_oferta) THEN Null
              ELSE ValorNumerico(resp.entrada.precio_oferta)

-----------------------------------------------------------------------------
(* Receipts service.                                                       *)

MaxBoleta == 2       \* values drawn from boleta_id_seq

\* Objects, arrays and strings that hold JSON text.
Obj(nombre, correo) ==
    [t |-> "object", n |-> 0, s |-> "", nombre |-> nombre, correo |-> correo]
Arr(items) == [t |-> "array", n |-> Len(items), s |-> "", items |-> items]
JsonStr(v) == [t |-> "string", n |-> 0, s |-> "json", json |-> v]

ParseError == [t |-> "SyntaxError", n |-> 0, s |-> ""]

\* A field sent as text is taken as it is.
JsonSinParse(x) == x

\* JSON.parse(x) of a string x
JsonParse(x) ==
    CASE x.s = "json" -> x.json
      [] x.s = "digits" -> Num(x.n)
      [] OTHER -> ParseError

\* new Date(fecha), as an instant
DateParse(fecha) == IF fecha = Str("2024-01-01") THEN 1 ELSE 0

\* Number.isNaN(num) ? param : num
Clave(param) == IF ToNumber(param) = NaN THEN param ELSE ToNumber(param)

\* A default that hands every row the number 1.
NumeroCompraFijo(seq) == 1

\* DEFAULT nextval(...) of numero_compra, under either bootstrap.
NumeroCompraDefault(seq) == seq + 1

\* A row of boleta as node-pg returns it: NUMERIC and BIGINT columns come
\* back as strings.
FilaPg(row, columna) ==
    [id |-> row.id,
     numero_compra |-> IF columna = "SERIAL" THEN Num(row.numero_compra)
                       ELSE NumStr(row.numero_compra),
     fecha |-> row.fecha,
     comprador |-> row.comprador,
     productos |-> row.productos,
     total |-> IF row.total = NaN THEN Str("NaN") ELSE NumStr(row.total.n),
     user_id |-> row.user_id]

\* boleta.total = Number(boleta.total) || 0
TotalNumerico(fila) ==
    [fila EXCEPT !.total = Or(ToNumber(fila.total), Num(0))]

\* POST /boletas up to the INSERT: the response of a rejected request, or
\* status 0 and the parameters of the INSERT.
PostBoletasPrevio(body, now) ==
    LET comprador == IF body.comprador.t = "string"
                     THEN JsonParse(body.comprador) ELSE body.comprador
        productos == IF body.productos.t = "string"
                     THEN JsonParse(body.productos) ELSE body.productos
    IN
    IF comprador = ParseError
    THEN [status |-> 400,
          body |-> [message |-> "comprador debe ser JSON valido"]]
    ELSE IF productos = ParseError
    THEN [status |-> 400,
          body |-> [message |-> "productos debe ser JSON valido"]]
    ELSE IF ~Truthy(productos) \/ productos.t # "array" \/ productos.n = 0
    THEN [status |-> 400,
          body |-> [message |-> "Productos requeridos (array no vacio)"]]
    ELSE IF \/ ~Truthy(comprador)
            \/ comprador.t # "object"   \* an array has no nombre
            \/ ~Truthy(comprador.nombre)
            \/ ~Truthy(comprador.correo)
    THEN [status |-> 400,
          body |-> [message |->
                      "Datos del comprador requeridos (nombre y correo)"]]
    ELSE [status |-> 0,
          body |-> [fecha |-> IF Truthy(body.fecha)
                              THEN DateParse(body.fecha) ELSE now,
                    comprador |-> comprador,
                    productos |-> productos,
                    total |-> IF body.total # Undefined
                              THEN ToNumber(body.total) ELSE Num(0),
                    user_id |-> IF body.user_id \notin {Undefined, Null}
                                THEN Or(ToNumber(body.user_id), Null)
                                ELSE Null]]

\* POST /boletas
PostBoletas(body) ==
    LET previo == PostBoletasPrevio(body, clock)
        numero == NumeroCompraDefault(numero_seq)
        row == [id |-> boleta_id_seq + 1, numero_compra |-> numero,
                fecha |-> previo.body.fecha,
                comprador |-> previo.body.comprador,
                productos |-> previo.body.productos,
                total |-> previo.body.total,
                user_id |-> previo.body.user_id]
        json == TotalNumerico(FilaPg(row, columnaNumero))
    IN
    /\ IF previo.status = 400
       THEN /\ resp' = [op |-> "POST /boletas", status |-> 400,
                        body |-> previo.body]
            /\ UNCHANGED <<boleta, boleta_id_seq, numero_seq, creadas>>
       ELSE /\ boleta_id_seq < MaxBoleta
            /\ boleta_id_seq' = boleta_id_seq + 1
            /\ numero_seq' = numero_seq + 1
            /\ IF \E r \in boleta : r.numero_compra = numero
               THEN /\ resp' = [op |-> "POST /boletas", status |-> 500,
                                body |-> [error |-> "Error al crear boleta",
                                          code |-> "23505"]]
                    /\ UNCHANGED <<boleta, creadas>>
               ELSE /\ boleta' = boleta \cup {row}
                    /\ creadas' = Append(creadas, json)
                    /\ resp' = [op |-> "POST /boletas", status |-> 201,
                                body |-> json]
    /\ UNCHANGED <<columnaNumero, varsUsuarios, varsCatalogo>>

\* A lookup that compares the key with the wrong column.
GetBoletaPorUsuarioRes(tabla, columna, numero) ==
    LET clave == Clave(numero)
        rows == {r \in tabla : r.user_id = clave}
    IN
    IF clave.t # "number"
    THEN [op |-> "GET /boletas/numero/:numero", status |-> 500,
          body |-> [error |-> "Error al obtener boleta"]]
    ELSE IF rows = {}
    THEN [op |-> "GET /boletas/numero/:numero", status |-> 404,
          body |-> [message |-> "Boleta no encontrada"]]
    ELSE [op |-> "GET /boletas/numero/:numero", status |-> 200,
          body |-> TotalNumerico(FilaPg(CHOOSE r \in rows : TRUE, columna))]

\* GET /boletas/numero/:numero: a text that is no numeral reaches the
\* store as text and the comparison with numero_compra fails (22P02).
GetBoletaNumeroRes(tabla, columna, numero) ==
    LET clave == Clave(numero)
        rows == {r \in tabla : Num(r.numero_compra) = clave}
    IN
    IF clave.t # "number"
    THEN [op |-> "GET /boletas/numero/:numero", status |-> 500,
          body |-> [error |-> "Error al obtener boleta"]]
    ELSE IF rows = {}
    THEN [op |-> "GET /boletas/numero/:numero", status |-> 404,
          body |-> [message |-> "Boleta no encontrada"]]
    ELSE [op |-> "GET /boletas/numero/:numero", status |-> 200,
          body |-> TotalNumerico(FilaPg(CHOOSE r \in rows : TRUE, columna))]

GetBoletaNumero(numero) ==
    /\ resp' = GetBoletaNumeroRes(boleta, columnaNumero, numero)
    /\ UNCHANGED <<varsBoletas, varsUsuarios, varsCatalogo>>

\* DELETE /boletas/:userId
DeleteBoletasUser(userId) ==
    LET clave == Clave(userId) IN
    /\ IF clave.t # "number"
       THEN /\ resp' = [op |-> "DELETE /boletas/:userId", status |-> 500,
                        body |-> [error |-> "Error al eliminar boletas"]]
            /\ UNCHANGED boleta
       ELSE /\ boleta' = {r \in boleta : r.user_id # clave}
            /\ resp' = [op |-> "DELETE /boletas/:userId", status |-> 200,
                        body |-> [ok |-> TRUE]]
    /\ UNCHANGED <<boleta_id_seq, numero_seq, columnaNumero, creadas,
                   varsUsuarios, varsCatalogo>>

CompradorValido == Obj(Str("Ana"), Str("ana@x.cl"))
UnProducto == Arr(<<"p1">>)

\* A request body of POST /boletas that is accepted.
BodyBoleta ==
    [fecha |-> Undefined, comprador |-> CompradorValido,
     productos |-> UnProducto, total |-> Num(100), user_id |-> Num(1)]

\* Request bodies of POST /boletas: the accepted body with one field varied.
BodiesBoleta ==
    {[BodyBoleta EXCEPT !.comprador = v] :
        v \in {Undefined, Obj(Str("Ana"), Undefined),
               JsonStr(CompradorValido), Str("{mal")}}
      \cup {[BodyBoleta EXCEPT !.productos = v] :
              v \in {Undefined, Arr(<<>>), JsonStr(Arr(<<>>)),
                     JsonStr(UnProducto), Str("{mal"), CompradorValido}}
      \cup {[BodyBoleta EXCEPT !.total = v] :
              v \in {Undefined, NumStr(100), Str("abc")}}
      \cup {[BodyBoleta EXCEPT !.user_id = v] :
              v \in {Undefined, Null, Num(2), Str("abc")}}
      \cup {[BodyBoleta EXCEPT !.fecha = v] : v \in {Str("2024-01-01")}}
      \cup {BodyBoleta}

\* Path parameters: numerals and a text that is no numeral.
ParamsNumero == {NumStr(k) : k \in 1..MaxBoleta} \cup {Str("abc")}
ParamsUserId == {NumStr(1), NumStr(2), Str("abc")}

\* The boleta table was created by the receipts service (SERIAL) or by the
\* receipt-detail service (BIGINT with a sequence default), whichever
\* started first; the later CREATE TABLE IF NOT EXISTS changes nothing.
InitBoletas ==
    /\ UsuariosVacio
    /\ CatalogoVacio
    /\ boleta = {}
    /\ boleta_id_seq = 0
    /\ numero_seq = 0
    /\ columnaNumero \in {"SERIAL", "BIGINT"}
    /\ creadas = <<>>
    /\ resp = NoResp

NextBoletas ==
    \/ \E body \in BodiesBoleta : PostBoletas(body)
    \/ \E numero \in ParamsNumero : GetBoletaNumero(numero)
    \/ \E userId \in ParamsUserId : DeleteBoletasUser(userId)

SpecBoletas == InitBoletas /\ [][NextBoletas]_vars

-----------------------------------------------------------------------------
(* Claims about the receipts service.                                      *)

\* A product list with no element, sent as an array or as JSON text.
ListaVacia(v) == v \in {Arr(<<>>), JsonStr(Arr(<<>>))}

\* A product list with an element, sent as an array or as JSON text.
ListaNoVacia(v) ==
    \/ v.t = "array" /\ v.n > 0
    \/ v.s = "json" /\ v.json.t = "array" /\ v.json.n > 0

\* A buyer with name and email, sent as an object or as JSON text.
CompradorCompleto(v) ==
    \/ v.t = "object" /\ Truthy(v.nombre) /\ Truthy(v.correo)
    \/ /\ v.s = "json"
       /\ v.json.t = "object"
       /\ Truthy(v.json.nombre)
       /\ Truthy(v.json.correo)

\* The path text of a purchase number.
ParamDe(numero) == NumStr(numero.n)

\* C5: POST /boletas with an empty product list answers 400 and stores
\* nothing; with a non-empty product list and a buyer having name and email
\* it answers 201 with a generated purchase number, and from then on GET
\* /boletas/numero/<that number> answers that same receipt, until the
\* receipt is deleted.
C5_CrearYRecuperar ==
    /\ [][\A body \in BodiesBoleta : PostBoletas(body) =>
            /\ ListaVacia(body.productos)
                 => resp'.status = 400 /\ boleta' = boleta
            /\ (ListaNoVacia(body.productos)
                  /\ CompradorCompleto(body.comprador))
                 => /\ resp'.status = 201
                    /\ resp'.body.numero_compra.n > 0
                    /\ \E r \in boleta' \ boleta :
                          /\ r.numero_compra = resp'.body.numero_compra.n
                          /\ boleta' = boleta \cup {r}]_vars
    /\ [](\A i \in DOMAIN creadas :
            (\E r \in boleta : r.id = creadas[i].id) =>
                GetBoletaNumeroRes(boleta, columnaNumero,
                                   ParamDe(creadas[i].numero_compra))
                  = [op |-> "GET /boletas/numero/:numero", status |-> 200,
                     body |-> creadas[i]])

\* The second receipt created was read back by its purchase number.
C5_Witness ==
    /\ resp.op = "GET /boletas/numero/:numero"
    /\ resp.status = 200
    /\ Len(creadas) = 2
    /\ resp.body = creadas[2]

\* C9: in every reachable state no two receipts share a purchase number;
\* each created receipt has a number greater than that of every receipt
\* created before it, deleted ones included, so no number is reused after
\* DELETE /boletas/:userId; and this holds under either bootstrap of the
\* boleta table.
C9_NumerosDeCompra ==
    /\ \A r1, r2 \in boleta : r1.numero_compra = r2.numero_compra => r1 = r2
    /\ \A i, j \in DOMAIN creadas :
          i < j => creadas[i].numero_compra.n < creadas[j].numero_compra.n
    /\ \A r \in boleta : \E i \in DOMAIN creadas :
          creadas[i].id = r.id /\ creadas[i].numero_compra.n = r.numero_compra

\* Under the receipt-detail bootstrap, a receipt was created after the
\* only earlier one had been deleted.
C9_Witness ==
    /\ columnaNumero = "BIGINT"
    /\ resp.op = "POST /boletas"
    /\ resp.status = 201
    /\ Len(creadas) = 2
    /\ Cardinality(boleta) = 1

-----------------------------------------------------------------------------
(* Failing statements: what each handler's catch block answers.            *)

\* Errors a statement raises that are neither a unique violation (23505)
\* nor an invalid text representation (22P02).
Errores ==
    {[code |-> "08006", message |-> "connection terminated"],
     [code |-> "57014", message |-> "canceling statement due to timeout"]}

RutasBoletas ==
    {"GET /boletas/numero/:numero", "GET /boletas/:userId", "GET /boletas",
     "POST /boletas", "DELETE /boletas/:userId"}
RutasCategorias ==
    {"GET /categorias", "GET /categorias/nombres", "POST /categorias",
     "POST /categorias/seed", "PUT /categorias/:id", "DELETE /categorias/:id"}
RutasProductos ==
    {"GET /productos", "GET /productos/categoria/:cat", "GET /productos/:id",
     "POST /productos", "PUT /productos/:id", "DELETE /productos/:id"}
RutasUsuarios ==
    {"POST /usuarios/register", "POST /usuarios/login", "GET /usuarios",
     "GET /usuarios/:id"}
RutasDetalle == {"GET /detalle/:numeroCompra", "GET /detalle"}

Rutas ==
    RutasBoletas \cup RutasCategorias \cup RutasProductos
      \cup RutasUsuarios \cup RutasDetalle

\* catch blocks of the receipts service
CatchBoletas(ruta, err) ==
    CASE ruta = "GET /boletas/numero/:numero" ->
            [status |-> 500, body |-> [error |-> "Error al obtener boleta"]]
      [] ruta = "GET /boletas/:userId" ->
            [status |-> 500,
             body |-> [error |-> "Error al obtener boletas del usuario"]]
      [] ruta = "GET /boletas" ->
            [status |-> 500,
             body |-> [error |-> "Error al obtener todas las boletas"]]
      [] ruta = "POST /boletas" ->
            IF err.code = "22P02"
            THEN [status |-> 400,
                  body |-> [error |->
                              "JSON invalido para comprador o productos",
                            code |-> err.code, detail |-> err.message]]
            ELSE [status |-> 500,
                  body |-> [error |-> "Error al crear boleta",
                            message |-> err.message, code |-> err.code]]
      [] ruta = "DELETE /boletas/:userId" ->
            [status |-> 500, body |-> [error |-> "Error al eliminar boletas"]]

\* catch blocks of a categories service that sends err.message along.
CatchCategoriasConMensaje(ruta, err) ==
    [status |-> 500,
     body |-> [message |-> "Error en categorias", error |-> err.message]]

\* catch blocks of the categories service
CatchCategorias(ruta, err) ==
    CASE ruta = "GET /categorias" ->
            [status |-> 500,
             body |-> [message |-> "Error al obtener categorias"]]
      [] ruta = "GET /categorias/nombres" ->
            [status |-> 500,
             body |-> [message |-> "Error al obtener nombres de categorias"]]
      [] ruta = "POST /categorias" ->
            IF err.code = "23505"
            THEN [status |-> 409, body |-> [message |-> "Categoria ya existe"]]
            ELSE [status |-> 500,
                  body |-> [message |-> "Error creando categoria"]]
      [] ruta = "POST /categorias/seed" ->
            [status |-> 500, body |-> [message |-> "Error seeding categorias"]]
      [] ruta = "PUT /categorias/:id" ->
            IF err.code = "23505"
            THEN [status |-> 409,
                  body |-> [message |->
                              "Ya existe otra categoria con ese nombre"]]
            ELSE [status |-> 500,
                  body |-> [message |-> "Error actualizando categoria"]]
      [] ruta = "DELETE /categorias/:id" ->
            [status |-> 500,
             body |-> [message |-> "Error eliminando categoria"]]

\* catch blocks of the products service
CatchProductos(ruta, err) ==
    [status |-> 500,
     body |-> [message |->
                 CASE ruta = "GET /productos" -> "Error al obtener productos"
                   [] ruta = "GET /productos/categoria/:cat" ->
                         "Error al obtener productos por categoria"
                   [] ruta = "GET /productos/:id" ->
                         "Error al obtener producto"
                   [] ruta = "POST /productos" -> "Error creando producto"
                   [] ruta = "PUT /productos/:id" ->
                         "Error actualizando producto"
                   [] ruta = "DELETE /productos/:id" ->
                         "Error eliminando producto",
               error |-> err.message]]

\* catch blocks of the users service
CatchUsuarios(ruta, err) ==
    IF ruta = "POST /usuarios/register" /\ err.code = "23505"
    THEN [status |-> 409, body |-> [message |-> "Usuario ya existe"]]
    ELSE [status |-> 500,
          body |-> [message |->
                      CASE ruta = "POST /usuarios/register" ->
                              "Error en registro"
                        [] ruta = "POST /usuarios/login" -> "Error en login"
                        [] ruta = "GET /usuarios" ->
                              "Error al obtener usuarios"
                        [] ruta = "GET /usuarios/:id" ->
                              "Error al obtener usuario",
                    error |-> err.message]]

\* catch blocks of the receipt-detail service
CatchDetalle(ruta, err) ==
    CASE ruta = "GET /detalle/:numeroCompra" ->
            [status |-> 500,
             body |-> [message |-> "Error al obtener detalle de la boleta"]]
      [] ruta = "GET /detalle" ->
            [status |-> 500,
             body |-> [message |-> "Error al obtener todas las boletas"]]

\* The answer of the catch block of a route.
Catch(ruta, err) ==
    CASE ruta \in RutasBoletas -> CatchBoletas(ruta, err)
      [] ruta \in RutasCategorias -> CatchCategorias(ruta, err)
      [] ruta \in RutasProductos -> CatchProductos(ruta, err)
      [] ruta \in RutasUsuarios -> CatchUsuarios(ruta, err)
      [] ruta \in RutasDetalle -> CatchDetalle(ruta, err)

\* A request whose first statement fails: the store is left as it was.
Falla(ruta, err) ==
    LET r == Catch(ruta, err) IN
    /\ resp' = [op |-> ruta, status |-> r.status, body |-> r.body,
                falla |-> err]
    /\ UNCHANGED <<varsUsuarios, varsCatalogo, varsBoletas>>

\* POST /categorias with a nombre that is no string: nombre.trim() throws
\* a TypeError inside the try block.
PostCategoriasTypeError(body) ==
    LET r == PostCategoriasRes(categoria, categoria_id_seq, body) IN
    /\ r.status = 500
    /\ resp' = [op |-> "POST /categorias", status |-> r.status,
                body |-> r.body,
                falla |-> [code |-> "",
                           message |-> "nombre.trim is not a function"]]
    /\ UNCHANGED <<varsUsuarios, varsCatalogo, varsBoletas>>

\* A cleanup whose failure reaches the outer catch block.
DeleteCategoriaLimpiaAborta(i) ==
    LET q == enCurso[i] IN
    /\ q.op = "delete"
    /\ q.pc = 2
    /\ enCurso' = [enCurso EXCEPT ![i] = Libre]
    /\ resp' = [op |-> "DELETE /categorias/:id", status |-> 500,
                body |-> [message |-> "Error eliminando categoria"],
                falla |-> [code |-> "08006",
                           message |-> "connection terminated"]]
    /\ UNCHANGED <<categoria, categoria_id_seq, producto, producto_id_seq,
                   varsUsuarios, varsBoletas>>

\* DELETE /categorias/:id, the cleanup UPDATE fails: the inner catch logs
\* the error and the handler goes on to the DELETE (position 4: DELETE
\* pending after a cleanup that failed).
DeleteCategoriaLimpiaFalla(i) ==
    LET q == enCurso[i] IN
    /\ q.op = "delete"
    /\ q.pc = 2
    /\ enCurso' = [enCurso EXCEPT ![i].pc = 4]
    /\ resp' = NoResp
    /\ UNCHANGED <<categoria, categoria_id_seq, producto, producto_id_seq,
                   varsUsuarios, varsBoletas>>

\* DELETE /categorias/:id, the DELETE statement fails after the cleanup.
DeleteCategoriaBorraFalla(i, err) ==
    LET q == enCurso[i]
        r == Catch("DELETE /categorias/:id", err)
    IN
    /\ q.op = "delete"
    /\ q.pc \in {3, 4}
    /\ enCurso' = [enCurso EXCEPT ![i] = Libre]
    /\ resp' = [op |-> "DELETE /categorias/:id", status |-> r.status,
                body |-> r.body, falla |-> err]
    /\ UNCHANGED <<categoria, categoria_id_seq, producto, producto_id_seq,
                   varsUsuarios, varsBoletas>>

\* DELETE FROM categoria WHERE id = $1 and the response, after a cleanup
\* that failed.
DeleteCategoriaBorraTrasFalla(i) ==
    LET q == enCurso[i] IN
    /\ q.op = "delete"
    /\ q.pc = 4
    /\ categoria' = {r \in categoria : r.id # q.id}
    /\ resp' = [op |-> "DELETE /categorias/:id", status |-> 200,
                solo |-> q.solo, id |-> q.id, nombre |-> q.nombre,
                antesCat |-> q.antesCat, antesProd |-> q.antesProd,
                limpieza |-> "fallida",
                body |-> [ok |-> TRUE]]
    /\ enCurso' = [Interferidos(enCurso, i, categoria' # categoria)
                      EXCEPT ![i] = Libre]
    /\ UNCHANGED <<categoria_id_seq, producto, producto_id_seq,
                   varsUsuarios, varsBoletas>>

BodiesFalla == {[nombre |-> Str("Ropa")], [nombre |-> Num(5)]}

\* The services with statements that may fail.
NextFallas ==
    \/ \E body \in BodiesFalla : PostCategorias(body)
    \/ \E body \in BodiesFalla : PostCategoriasTypeError(body)
    \/ PostProductos([BodyVacio EXCEPT !.categoria = Str("Ropa")], NoFile)
    \/ \E ruta \in Rutas, err \in Errores : Falla(ruta, err)
    \/ \E i \in DOMAIN enCurso, id \in 1..MaxCatSeq :
          DeleteCategoriaLlega(i, id)
    \/ \E i \in DOMAIN enCurso : DeleteCategoriaSelect(i)
    \/ \E i \in DOMAIN enCurso : DeleteCategoriaLimpia(i)
    \/ \E i \in DOMAIN enCurso : DeleteCategoriaLimpiaFalla(i)
    \/ \E i \in DOMAIN enCurso : DeleteCategoriaBorra(i)
    \/ \E i \in DOMAIN enCurso, err \in Errores :
          DeleteCategoriaBorraFalla(i, err)
    \/ \E i \in DOMAIN enCurso : DeleteCategoriaBorraTrasFalla(i)

SpecFallas == InitCategorias /\ [][NextFallas]_vars

\* The response on display answers a request that failed.
RespDeFalla == "falla" \in DOMAIN resp

\* The body on display carries the raw message of the failure.
LlevaMensaje == \E f \in DOMAIN resp.body : resp.body[f] = resp.falla.message

\* Routes whose catch block sends err.message.
RutasConMensaje == RutasProductos \cup RutasUsuarios \cup {"POST /boletas"}

\* C11 as stated: in every service a request that fails for a reason other
\* than validation, not-found, uniqueness conflict or malformed stored value
\* is answered 500 with a body that carries the raw error message.
C11_Original ==
    RespDeFalla => resp.status = 500 /\ LlevaMensaje

\* C11 (amended): such a request is answered 500; the body carries the raw
\* error message in the products and users services and in POST /boletas,
\* and only a fixed text elsewhere (categories service, the other receipts
\* routes, receipt-detail service).
C11_Error500 ==
    RespDeFalla =>
        /\ resp.status = 500
        /\ LlevaMensaje <=> resp.op \in RutasConMensaje

\* A failing product delete was answered with the raw message, with
\* products in the store.
C11_Witness ==
    /\ RespDeFalla
    /\ resp.op = "DELETE /productos/:id"
    /\ resp.status = 500
    /\ resp.body.error = resp.falla.message
    /\ producto # {}

-----------------------------------------------------------------------------
(* Receipt lists and the receipt-detail service.                           *)

\* SELECT * FROM boleta ORDER BY fecha DESC.  Rows of equal fecha come in
\* the order the store holds them, which is that of their ids; both
\* services send the same statement to the same store.
RECURSIVE OrdenFechaDesc(_)
OrdenFechaDesc(rows) ==
    IF rows = {} THEN <<>>
    ELSE LET r == CHOOSE x \in rows : \A o \in rows :
                     \/ x.fecha > o.fecha
                     \/ x.fecha = o.fecha /\ x.id <= o.id
         IN <<r>> \o OrdenFechaDesc(rows \ {r})

\* SELECT * FROM boleta ORDER BY id
RECURSIVE OrdenPorId(_)
OrdenPorId(rows) ==
    IF rows = {} THEN <<>>
    ELSE LET r == CHOOSE x \in rows : \A o \in rows : x.id <= o.id
         IN <<r>> \o OrdenPorId(rows \ {r})

\* GET /boletas
GetBoletasRes(tabla, columna) ==
    LET rows == OrdenFechaDesc(tabla) IN
    [op |-> "GET /boletas", status |-> 200,
     body |-> [k \in DOMAIN rows |->
                 TotalNumerico(FilaPg(rows[k], columna))]]

GetBoletas ==
    /\ resp' = GetBoletasRes(boleta, columnaNumero)
    /\ UNCHANGED <<varsBoletas, varsUsuarios, varsCatalogo>>

\* GET /boletas/:userId
GetBoletasUserRes(tabla, columna, userId) ==
    LET clave == Clave(userId)
        rows == OrdenFechaDesc({r \in tabla : r.user_id = clave})
    IN
    IF clave.t # "number"
    THEN [op |-> "GET /boletas/:userId", status |-> 500,
          body |-> [error |-> "Error al obtener boletas del usuario"]]
    ELSE [op |-> "GET /boletas/:userId", status |-> 200,
          body |-> [k \in DOMAIN rows |->
                      TotalNumerico(FilaPg(rows[k], columna))]]

GetBoletasUser(userId) ==
    /\ resp' = GetBoletasUserRes(boleta, columnaNumero, userId)
    /\ UNCHANGED <<varsBoletas, varsUsuarios, varsCatalogo>>

\* GET /detalle/:numeroCompra of the receipt-detail service
GetDetalleNumeroRes(tabla, columna, numeroCompra) ==
    LET clave == Clave(numeroCompra)
        rows == {r \in tabla : Num(r.numero_compra) = clave}
    IN
    IF clave.t # "number"
    THEN [op |-> "GET /detalle/:numeroCompra", status |-> 500,
          body |-> [message |-> "Error al obtener detalle de la boleta"]]
    ELSE IF rows = {}
    THEN [op |-> "GET /detalle/:numeroCompra", status |-> 404,
          body |-> [message |-> "Boleta no encontrada"]]
    ELSE [op |-> "GET /detalle/:numeroCompra", status |-> 200,
          body |-> TotalNumerico(FilaPg(CHOOSE r \in rows : TRUE, columna))]

GetDetalleNumero(numeroCompra) ==
    /\ resp' = GetDetalleNumeroRes(boleta, columnaNumero, numeroCompra)
    /\ UNCHANGED <<varsBoletas, varsUsuarios, varsCatalogo>>

\* A list of the receipt-detail service in the order of the ids.
GetDetallePorId(tabla, columna) ==
    LET rows == OrdenPorId(tabla) IN
    [op |-> "GET /detalle", status |-> 200,
     body |-> [k \in DOMAIN rows |->
                 TotalNumerico(FilaPg(rows[k], columna))]]

\* GET /detalle of the receipt-detail service
GetDetalleRes(tabla, columna) ==
    LET rows == OrdenFechaDesc(tabla)
        fila(r) == TotalNumerico(FilaPg(r, columna))
    IN
    [op |-> "GET /detalle", status |-> 200,
     body |-> [k \in DOMAIN rows |->
                 [fila(rows[k]) EXCEPT
                    !.numero_compra =
                       Or(fila(rows[k]).numero_compra, Null)]]]

GetDetalle ==
    /\ resp' = GetDetalleRes(boleta, columnaNumero)
    /\ UNCHANGED <<varsBoletas, varsUsuarios, varsCatalogo>>

\* Receipts and receipt-detail services over the one boleta table.
NextDetalle ==
    \/ \E body \in BodiesBoleta : PostBoletas(body)
    \/ \E userId \in ParamsUserId : DeleteBoletasUser(userId)
    \/ \E numero \in ParamsNumero : GetBoletaNumero(numero)
    \/ \E numero \in ParamsNumero : GetDetalleNumero(numero)
    \/ \E userId \in ParamsUserId : GetBoletasUser(userId)
    \/ GetBoletas
    \/ GetDetalle

SpecDetalle == InitBoletas /\ [][NextDetalle]_vars

\* C12: for every store state and every purchase-number key, GET
\* /detalle/:numeroCompra and GET /boletas/numero/:numero answer the same
\* status and the same receipt (404 in both when absent), and GET /detalle
\* and GET /boletas answer the same list of receipts in the same order.
C12_DetalleIgualABoletas ==
    /\ \A key \in ParamsNumero :
          LET d == GetDetalleNumeroRes(boleta, columnaNumero, key)
              b == GetBoletaNumeroRes(boleta, columnaNumero, key)
          IN /\ d.status = b.status
             /\ d.status \in {200, 404} => d.body = b.body
             /\ (key.s = "digits"
                   /\ ~\E r \in boleta : NumStr(r.numero_compra) = key)
                  => d.status = 404 /\ b.status = 404
    /\ GetDetalleRes(boleta, columnaNumero).status
         = GetBoletasRes(boleta, columnaNumero).status
    /\ GetDetalleRes(boleta, columnaNumero).body
         = GetBoletasRes(boleta, columnaNumero).body

\* GET /detalle listed two receipts, the later-created one first.
C12_Witness ==
    /\ resp.op = "GET /detalle"
    /\ Len(resp.body) = 2
    /\ resp.body[1].id = 2
    /\ resp.body = GetBoletasRes(boleta, columnaNumero).body

-----------------------------------------------------------------------------
(* Registration and its optional fields.                                   *)

\* A request body of register with the optional fields absent.
BodyRegistro ==
    [correo |-> Str("ana@x.cl"), password |-> Str("p1"),
     nombre |-> Undefined, fechaNacimiento |-> Undefined,
     fecha_nacimiento |-> Undefined, tipoUsuario |-> Undefined,
     tipo_usuario |-> Undefined]

\* Request bodies of register: fields absent, empty or given, under either
\* spelling of the two fields that have two.
BodiesRegistro ==
    {[BodyRegistro EXCEPT !.correo = v] :
        v \in {Undefined, Str(""), Str("ana@x.cl"), Str("beto@x.cl")}}
      \cup {[BodyRegistro EXCEPT !.password = v] :
              v \in {Undefined, Str("")}}
      \cup {[BodyRegistro EXCEPT !.nombre = v] : v \in {Str(""), Str("Ana")}}
      \cup {[BodyRegistro EXCEPT !.fechaNacimiento = v, !.fecha_nacimiento = w] :
              v \in {Undefined, Str("")},
              w \in {Undefined, Str("2000-01-01")}}
      \cup {[BodyRegistro EXCEPT !.tipoUsuario = v, !.tipo_usuario = w] :
              v \in {Undefined, Str(""), Str("admin")},
              w \in {Undefined, Str("admin")}}
      \cup {[BodyRegistro EXCEPT !.correo = Str("beto@x.cl"),
                                 !.nombre = Str("Ana"),
                                 !.fecha_nacimiento = Str("2000-01-01"),
                                 !.tipo_usuario = Str("admin")]}

\* Register, and login with what was registered.
NextRegistro ==
    \/ \E body \in BodiesRegistro : Register(body)
    \/ \E correo \in JsCorreos, password \in JsPasswords :
          Login(correo, password)

SpecRegistro == InitUsuarios /\ [][NextRegistro]_vars

\* A field that is absent or the empty string.
Vacio(v) == v \in {Undefined, Str("")}

\* C13: register with a missing or empty email or password answers 400 and
\* inserts no row; otherwise, in the row it stores, every optional field
\* that is absent or the empty string is null (a given one is kept), and the
\* user type is "cliente" when absent or empty.
C13_RegistroNormaliza ==
    [][\A body \in BodiesRegistro : Register(body) =>
         IF Vacio(body.correo) \/ Vacio(body.password)
         THEN resp'.status = 400 /\ usuario' = usuario
         ELSE /\ resp'.status \in {201, 409}
              /\ resp'.status = 409 => usuario' = usuario
              /\ resp'.status = 201 =>
                   \E r \in usuario' \ usuario :
                      /\ usuario' = usuario \cup {r}
                      /\ r.correo = body.correo
                      /\ r.nombre = IF Vacio(body.nombre) THEN Null
                                    ELSE body.nombre
                      /\ (Vacio(body.fechaNacimiento)
                            /\ Vacio(body.fecha_nacimiento))
                           => r.fecha_nacimiento = Null
                      /\ (Vacio(body.tipoUsuario)
                            /\ Vacio(body.tipo_usuario))
                           => r.tipo_usuario = Str("cliente")]_vars

\* One user is stored with no name, no birth date and the default type,
\* another with the name and type that were sent.
C13_Witness ==
    /\ resp.op = "register"
    /\ resp.status = 201
    /\ \E r \in usuario :
          /\ r.nombre = Null
          /\ r.fecha_nacimiento = Null
          /\ r.tipo_usuario = Str("cliente")
    /\ \E r \in usuario :
          r.nombre = Str("Ana") /\ r.tipo_usuario = Str("admin")

-----------------------------------------------------------------------------
(* Products service: delete, filter, update.                               *)

\* Path values of :id: numerals and a text that is no numeral.
ParamsProductoId == {NumStr(k) : k \in 1..MaxProdSeq} \cup {Str("abc")}

\* A delete that looks the product up first.
DeleteProductoSiExiste(tabla, id) ==
    IF id.s # "digits"
    THEN [status |-> 500, tabla |-> tabla,
          body |-> [message |-> "Error eliminando producto"]]
    ELSE IF ~\E r \in tabla : r.id = id.n
    THEN [status |-> 404, tabla |-> tabla,
          body |-> [message |-> "No encontrado"]]
    ELSE [status |-> 200, tabla |-> {r \in tabla : r.id # id.n},
          body |-> [ok |-> TRUE]]

\* DELETE FROM producto WHERE id=$1 with the path text as parameter, and
\* the response: a text that is no integer is refused by the store.
DeleteProductoRes(tabla, id) ==
    IF id.s # "digits"
    THEN [status |-> 500, tabla |-> tabla,
          body |-> [message |-> "Error eliminando producto"]]
    ELSE [status |-> 200, tabla |-> {r \in tabla : r.id # id.n},
          body |-> [ok |-> TRUE]]

\* DELETE /productos/:id
DeleteProducto(id) ==
    LET r == DeleteProductoRes(producto, id) IN
    /\ producto' = r.tabla
    /\ resp' = [op |-> "DELETE /productos/:id", status |-> r.status,
                body |-> r.body]
    /\ enCurso' = Interferidos(enCurso, 0, r.tabla # producto)
    /\ UNCHANGED <<producto_id_seq, categoria, categoria_id_seq,
                   varsUsuarios, varsBoletas>>

\* Request bodies and files of POST /productos: a category or none, an
\* image URL or none, an uploaded file or none.
BodiesProductoImagen ==
    {[BodyVacio EXCEPT !.categoria = c, !.imagen = u] :
        c \in {Undefined, Str("Ropa"), Str("Hogar")},
        u \in {Undefined, Str("http://x/i.png")}}

Files == {NoFile, File("1-a.png")}

NextBorrado ==
    \/ \E body \in BodiesProductoImagen, file \in Files :
          PostProductos(body, file)
    \/ \E id \in ParamsProductoId : DeleteProducto(id)

SpecBorrado == InitCategorias /\ [][NextBorrado]_vars

-----------------------------------------------------------------------------
(* Receipt keys.                                                           *)

\* C15: DELETE /boletas/:userId reports success for every userId value;
\* afterwards no receipt with that user id remains, and every receipt of
\* another user, or with a null user id, is unchanged.
C15_BorradoPorUsuario ==
    [][\A userId \in ParamsUserId : DeleteBoletasUser(userId) =>
         /\ resp'.status = 200
         /\ resp'.body = [ok |-> TRUE]
         /\ ~\E r \in boleta' : r.user_id = Clave(userId)
         /\ boleta' = {r \in boleta : r.user_id # Clave(userId)}]_vars

\* The receipt routes that take a key from the path.
RutasConClave ==
    {"GET /boletas/numero/:numero", "GET /boletas/:userId",
     "DELETE /boletas/:userId", "GET /detalle/:numeroCompra"}

\* C16: the receipt read and delete paths accept both kinds of key: a path
\* value that converts to a number is looked up as that number, and any
\* other value is looked up as a string and answered as a normal lookup (a
\* result, not-found or an empty list), not as a failure.
C16_ClavesDeTexto ==
    resp.op \in RutasConClave =>
        /\ resp.status \in {200, 404}
        /\ resp.status = 404 => resp.body = [message |-> "Boleta no encontrada"]

-----------------------------------------------------------------------------
(* Products by category.                                                   *)

\* SELECT * FROM producto WHERE categoria = $1, and the response.  The
\* statement names no order: the body is the collection of rows.
GetProductosCategoriaRes(tabla, cat) ==
    [op |-> "GET /productos/categoria/:cat", status |-> 200,
     entrada |-> cat,
     body |-> {r \in tabla : r.categoria = Str(cat)}]

\* GET /productos/categoria/:cat
GetProductosCategoria(cat) ==
    /\ resp' = GetProductosCategoriaRes(producto, cat)
    /\ UNCHANGED <<varsUsuarios, varsCatalogo, varsBoletas>>

ParamsCategoria == {"Ropa", "Hogar", "Gamer"}

NextFiltro ==
    \/ \E body \in BodiesProductoCategoria : PostProductos(body, NoFile)
    \/ \E id \in ParamsProductoId : DeleteProducto(id)
    \/ \E cat \in ParamsCategoria : GetProductosCategoria(cat)

SpecFiltro == InitCategorias /\ [][NextFiltro]_vars

\* C17: GET /productos/categoria/:cat answers exactly the products whose
\* category equals :cat, and answers 404 when no product has that category,
\* as the documentation of the route states.
C17_FiltroPorCategoria ==
    resp.op = "GET /productos/categoria/:cat" =>
        LET coinciden == {r \in producto : r.categoria = Str(resp.entrada)}
        IN IF coinciden = {} THEN resp.status = 404
           ELSE resp.status = 200 /\ resp.body = coinciden

-----------------------------------------------------------------------------
(* PUT /productos/:id.                                                     *)

\* The fields of an update that coerces en_oferta as the create does.
CamposPutComoPost(body, file) ==
    [f \in DOMAIN body \cup {"imagen_url"} |->
        CASE f \in {"precio", "precio_oferta", "stock", "stock_critico"} ->
                IF Truthy(body[f]) THEN ToNumber(body[f]) ELSE body[f]
          [] f = "en_oferta" ->
                IF body.en_oferta # Undefined
                THEN Bool(enOfertaBool(body.en_oferta))
                ELSE Undefined
          [] f = "imagen_url" ->
                IF file.presente THEN Str(UploadsPath(file.filename))
                ELSE IF Truthy(body.imagen) THEN body.imagen
                ELSE Undefined
          [] f = "imagen" ->
                IF ~file.presente /\ Truthy(body.imagen) THEN Undefined
                ELSE body.imagen
          [] OTHER -> body[f]]

\* campos after the coercions and the image rule: a field is a key of
\* campos when its value is not Undefined.  req.body.imagen is removed only
\* on the branch that copies it to imagen_url.
CamposPut(body, file) ==
    [f \in DOMAIN body \cup {"imagen_url"} |->
        CASE f \in {"precio", "precio_oferta", "stock", "stock_critico"} ->
                IF Truthy(body[f]) THEN ToNumber(body[f]) ELSE body[f]
          [] f = "en_oferta" ->
                IF body.en_oferta # Undefined
                THEN Bool(body.en_oferta = Str("true")
                            \/ body.en_oferta = Bool(TRUE))
                ELSE Undefined
          [] f = "imagen_url" ->
                IF file.presente THEN Str(UploadsPath(file.filename))
                ELSE IF Truthy(body.imagen) THEN body.imagen
                ELSE Undefined
          [] f = "imagen" ->
                IF ~file.presente /\ Truthy(body.imagen) THEN Undefined
                ELSE body.imagen
          [] OTHER -> body[f]]

\* Object.keys(campos)
KeysPut(campos) == {f \in DOMAIN campos : campos[f] # Undefined}

\* The columns of producto.
ColumnasProducto ==
    {"id", "codigo", "nombre", "descripcion", "categoria", "precio",
     "precio_oferta", "en_oferta", "stock", "stock_critico", "imagen_url"}

\* The outcome of PUT /productos/:id: the statement is refused when it sets
\* a column producto does not have (42703), when :id is no integer or an
\* INTEGER column is given no integer (22P02).
PutProductosRes(tabla, id, body, file) ==
    LET campos == CamposPut(body, file)
        keys == KeysPut(campos)
        rows == {r \in tabla : r.id = id.n}
        nueva(r) == [f \in DOMAIN r |->
                       IF f \in keys THEN campos[f] ELSE r[f]]
    IN
    IF keys = {}
    THEN [status |-> 400, tabla |-> tabla,
          body |-> [message |-> "No hay campos para actualizar"]]
    ELSE IF \/ ~(keys \subseteq ColumnasProducto)
            \/ id.s # "digits"
            \/ \E f \in keys \cap {"stock", "stock_critico"} :
                  campos[f].t # "number" \/ campos[f] = NaN
    THEN [status |-> 500, tabla |-> tabla,
          body |-> [message |-> "Error actualizando producto"]]
    ELSE IF rows = {}
    THEN [status |-> 404, tabla |-> tabla,
          body |-> [message |-> "No encontrado"]]
    ELSE [status |-> 200,
          tabla |-> (tabla \ rows) \cup {nueva(r) : r \in rows},
          body |-> nueva(CHOOSE r \in rows : TRUE)]

\* PUT /productos/:id
PutProductos(id, body, file) ==
    LET r == PutProductosRes(producto, id, body, file) IN
    /\ producto' = r.tabla
    /\ resp' = [op |-> "PUT /productos/:id", status |-> r.status,
                body |-> r.body]
    /\ enCurso' = Interferidos(enCurso, 0, r.tabla # producto)
    /\ UNCHANGED <<producto_id_seq, categoria, categoria_id_seq,
                   varsUsuarios, varsBoletas>>

\* Request bodies of PUT /productos/:id: no field, or one field.
BodiesPut ==
    {BodyVacio,
     [BodyVacio EXCEPT !.categoria = Str("Hogar")],
     [BodyVacio EXCEPT !.precio = NumStr(50)],
     [BodyVacio EXCEPT !.imagen = Str("http://x/i.png")]}

FilesPut == {NoFile, File("2-a.png")}

\* Request bodies of POST /productos in this specification.
BodiesPost ==
    {[BodyVacio EXCEPT !.categoria = Str("Ropa")],
     [BodyVacio EXCEPT !.imagen = Str("http://x/i.png")]}

NextActualiza ==
    \/ \E body \in BodiesPost, file \in Files : PostProductos(body, file)
    \/ \E id \in ParamsProductoId, body \in BodiesPut, file \in FilesPut :
          PutProductos(id, body, file)

SpecActualiza == InitCategorias /\ [][NextActualiza]_vars

\* The columns a request names: its body fields, imagen standing for
\* imagen_url, and imagen_url when a file is uploaded.
Nombradas(body, file) ==
    {f \in DOMAIN body \ {"imagen"} : body[f] # Undefined}
      \cup (IF file.presente \/ body.imagen # Undefined
            THEN {"imagen_url"} ELSE {})

\* C18: PUT /productos/:id with no body field and no uploaded file answers
\* 400 and writes nothing; with fields but no product of that id it answers
\* 404 and changes no product; when it succeeds, only the columns named in
\* the request change on that product and every other product is unchanged.
C18_ActualizacionParcial ==
    [][\A k \in 1..MaxProdSeq, body \in BodiesPut, file \in FilesPut :
         PutProductos(NumStr(k), body, file) =>
            IF Nombradas(body, file) = {}
            THEN resp'.status = 400 /\ producto' = producto
            ELSE IF ~\E r \in producto : r.id = k
            THEN resp'.status = 404 /\ producto' = producto
            ELSE resp'.status = 200 =>
                   /\ \A r \in producto : r.id # k => r \in producto'
                   /\ \A r2 \in producto' : r2.id # k => r2 \in producto
                   /\ \A r \in producto : r.id = k =>
                         \E r2 \in producto' :
                            /\ r2.id = k
                            /\ \A f \in DOMAIN r \ Nombradas(body, file) :
                                  r2[f] = r[f]]_vars

\* C19: create and update apply the same image rule: with both an uploaded
\* file and an image URL field the operation succeeds and the stored
\* imagen_url is the path of the uploaded file, the URL being ignored; with
\* only a URL, imagen_url is that URL.
C19_PrecedenciaImagen ==
    /\ [][\A body \in BodiesPost, file \in Files :
            (PostProductos(body, file) /\ Truthy(body.imagen)) =>
               /\ resp'.status = 201
               /\ resp'.body \in producto'
               /\ resp'.body.imagen_url =
                     IF file.presente THEN Str(UploadsPath(file.filename))
                     ELSE body.imagen]_vars
    /\ [][\A k \in 1..MaxProdSeq, body \in BodiesPut, file \in FilesPut :
            (/\ PutProductos(NumStr(k), body, file)
             /\ Truthy(body.imagen)
             /\ \E r \in producto : r.id = k) =>
               /\ resp'.status = 200
               /\ \E r2 \in producto' :
                     /\ r2.id = k
                     /\ r2.imagen_url =
                          IF file.presente
                          THEN Str(UploadsPath(file.filename))
                          ELSE body.imagen]_vars

-----------------------------------------------------------------------------
(* The name rule of category create and rename.                            *)

NextNombres ==
    \/ \E body \in BodiesCategoria : PostCategorias(body)
    \/ \E id \in 1..MaxCatSeq, body \in BodiesCategoria :
          PutCategorias(id, body)
    \/ GetCategoriasNombres
    \/ \E i \in DOMAIN enCurso, id \in 1..MaxCatSeq :
          DeleteCategoriaLlega(i, id)
    \/ \E i \in DOMAIN enCurso : DeleteCategoriaSelect(i)
    \/ \E i \in DOMAIN enCurso : DeleteCategoriaLimpia(i)
    \/ \E i \in DOMAIN enCurso : DeleteCategoriaBorra(i)

SpecNombres == InitCategorias /\ [][NextNombres]_vars

\* A name that is missing, empty or only white space.
NombreEnBlanco(v) == v \in {Undefined, Str(""), Str("   ")}

\* The name without the white space around it.
SinEspacios(v) == IF v = Str(" Ropa ") THEN "Ropa" ELSE v.s

\* C20: create and rename apply the same name rule: a missing, empty or
\* whitespace-only name answers 400 with no store change; otherwise the
\* name is stored trimmed; a name whose trimmed form is the name of an
\* existing (other) category answers 409 with no store change; and rename
\* of an id no category has answers 404, distinct from the 409.
C20_ReglaDeNombre ==
    /\ [][\A body \in BodiesCategoria : PostCategorias(body) =>
            IF NombreEnBlanco(body.nombre)
            THEN resp'.status = 400 /\ categoria' = categoria
            ELSE IF \E r \in categoria : r.nombre = SinEspacios(body.nombre)
            THEN resp'.status = 409 /\ categoria' = categoria
            ELSE /\ resp'.status = 201
                 /\ resp'.body.nombre = SinEspacios(body.nombre)
                 /\ resp'.body \notin categoria
                 /\ categoria' = categoria \cup {resp'.body}]_vars
    /\ [][\A id \in 1..MaxCatSeq, body \in BodiesCategoria :
            PutCategorias(id, body) =>
               IF NombreEnBlanco(body.nombre)
               THEN resp'.status = 400 /\ categoria' = categoria
               ELSE IF ~\E r \in categoria : r.id = id
               THEN resp'.status = 404 /\ categoria' = categoria
               ELSE IF \E r \in categoria :
                          r.id # id /\ r.nombre = SinEspacios(body.nombre)
               THEN resp'.status = 409 /\ categoria' = categoria
               ELSE /\ resp'.status = 200
                    /\ resp'.body =
                          [id |-> id, nombre |-> SinEspacios(body.nombre)]
                    /\ categoria' =
                          {r \in categoria : r.id # id}
                            \cup {resp'.body}]_vars

\* With two categories stored, one was renamed.
C20_Witness ==
    /\ resp.op = "PUT /categorias/:id"
    /\ resp.status = 200
    /\ Cardinality(categoria) = 2
    /\ resp.body.nombre = "Ropa"
    /\ resp.body.id = 2

-----------------------------------------------------------------------------
(* DELETE /categorias/:id when the cleanup fails.                          *)

\* The response on display is that of a delete whose cleanup had failed.
DeleteTrasFalla ==
    /\ resp.op = "DELETE /categorias/:id"
    /\ "limpieza" \in DOMAIN resp

\* C21: DELETE /categorias/:id answers 404 and changes nothing when no
\* category has that id; when the category exists, a failure of the
\* product-cleanup statement is swallowed: the category row is still
\* deleted and the response is still success, with products left unchanged.
C21_LimpiezaTolerada ==
    /\ [][\A i \in DOMAIN enCurso :
            (DeleteCategoriaSelect(i)
               /\ ~\E r \in categoria : r.id = enCurso[i].id) =>
                  /\ resp'.status = 404
                  /\ categoria' = categoria
                  /\ producto' = producto]_vars
    /\ [][\A i \in DOMAIN enCurso : DeleteCategoriaLimpiaFalla(i) =>
            /\ resp' = NoResp
            /\ enCurso'[i].op = "delete"
            /\ categoria' = categoria
            /\ producto' = producto]_vars
    /\ [][\A i \in DOMAIN enCurso : DeleteCategoriaBorraTrasFalla(i) =>
            /\ resp'.status = 200
            /\ resp'.body = [ok |-> TRUE]
            /\ ~\E r \in categoria' : r.id = enCurso[i].id
            /\ producto' = producto]_vars
    /\ []((DeleteTrasFalla /\ resp.solo) =>
            /\ resp.status = 200
            /\ \E r \in resp.antesCat : r.id = resp.id
            /\ categoria = {r \in resp.antesCat : r.id # resp.id}
            /\ producto = resp.antesProd)

\* A delete whose cleanup failed was answered 200 and a product still
\* carries the name of the deleted category.
C21_Witness ==
    /\ DeleteTrasFalla
    /\ resp.solo
    /\ resp.status = 200
    /\ \E r \in producto : r.categoria = Str(resp.nombre)

-----------------------------------------------------------------------------
(* A delete of a category racing with writes to the products.              *)

\* Request bodies of POST /productos and PUT /productos/:id that put a
\* product in a category.
BodiesPutCategoria == {[BodyVacio EXCEPT !.categoria = Str("Ropa")]}

\* Categories are created and deleted while products are created and
\* updated; each statement of the delete is a step of its own.
NextCarrera ==
    \/ \E body \in BodiesCascada : PostCategorias(body)
    \/ \E body \in BodiesPutCategoria : PostProductos(body, NoFile)
    \/ \E id \in ParamsProductoId, body \in BodiesPutCategoria :
          PutProductos(id, body, NoFile)
    \/ \E i \in DOMAIN enCurso, id \in 1..MaxCatSeq :
          DeleteCategoriaLlega(i, id)
    \/ \E i \in DOMAIN enCurso : DeleteCategoriaSelect(i)
    \/ \E i \in DOMAIN enCurso : DeleteCategoriaLimpia(i)
    \/ \E i \in DOMAIN enCurso : DeleteCategoriaBorra(i)

SpecCarrera == InitCategorias /\ [][NextCarrera]_vars

\* The response on display is a successful delete of a category, no
\* category has the deleted name, and a product carries it.
NombreHuerfano ==
    /\ resp.op = "DELETE /categorias/:id"
    /\ resp.status = 200
    /\ ~\E c \in categoria : c.nombre = resp.nombre
    /\ \E r \in producto : r.categoria = Str(resp.nombre)

\* C22: the cleanup of the products and the deletion of the row are two
\* statements with other requests free to run between them: the cleanup
\* leaves the row in place and the request in flight, the deletion does not
\* look at the products again, and a product carrying the deleted name
\* after a successful delete was written by another request in between.
C22_DosSentencias ==
    /\ [][\A i \in DOMAIN enCurso : DeleteCategoriaLimpia(i) =>
            /\ categoria' = categoria
            /\ resp' = NoResp
            /\ enCurso'[i].op = "delete"
            /\ enCurso'[i].pc = 3]_vars
    /\ [][\A i \in DOMAIN enCurso : DeleteCategoriaBorra(i) =>
            producto' = producto]_vars
    /\ [][\A i \in DOMAIN enCurso, id \in ParamsProductoId,
            body \in BodiesPutCategoria :
            (enCurso[i].pc = 3
               /\ (PostProductos(body, NoFile)
                     \/ PutProductos(id, body, NoFile))) =>
                  /\ enCurso'[i].pc = 3
                  /\ \A r \in producto' \ producto :
                        r.categoria = body.categoria]_vars
    /\ [](NombreHuerfano => ~resp.solo)

\* The delete answered success and a product written between its two
\* statements still carries the deleted name.
C22_Witness ==
    /\ NombreHuerfano
    /\ ~resp.solo

-----------------------------------------------------------------------------
(* POST /boletas: buyer and product list as values or as JSON text.        *)

\* Request bodies of POST /boletas with both fields as JSON text, with a
\* buyer that lacks a field, and with date and total absent.
BodiesRecibo ==
    {[BodyBoleta EXCEPT !.comprador = v] :
        v \in {Obj(Undefined, Str("ana@x.cl")),
               JsonStr(Obj(Str("Ana"), Undefined)),
               JsonStr(Obj(Str(""), Str("ana@x.cl"))),
               Str("{mal")}}
      \cup {[BodyBoleta EXCEPT !.productos = Str("{mal")],
            [BodyBoleta EXCEPT !.fecha = Str("2024-01-01")]}
      \cup {[fecha |-> Undefined, comprador |-> JsonStr(CompradorValido),
             productos |-> JsonStr(UnProducto), total |-> Undefined,
             user_id |-> Undefined],
            [fecha |-> Str("2024-01-01"), comprador |-> Str("{mal"),
             productos |-> Str("{mal"), total |-> Undefined,
             user_id |-> Undefined]}

\* Receipts are created as time passes.
NextRecibos ==
    \/ \E body \in BodiesRecibo : PostBoletas(body)
    \/ Tick

SpecRecibos == InitBoletas /\ [][NextRecibos]_vars

\* A field sent as text that is no JSON.
TextoMalformado(v) == v = Str("{mal")

\* A field sent as JSON text, and the value it stands for.
TextoJson(v) == v.t = "string" /\ v.s = "json"
Estructurado(v) == IF TextoJson(v) THEN v.json ELSE v

\* A buyer, sent as an object or as JSON text, without name or without
\* email.
CompradorIncompleto(v) ==
    /\ Estructurado(v).t = "object"
    /\ \/ Estructurado(v).nombre \in {Undefined, Str("")}
       \/ Estructurado(v).correo \in {Undefined, Str("")}

\* C23: POST /boletas takes buyer and product list as values or as JSON
\* text. Malformed text in either field is answered 400 and nothing is
\* stored; a buyer without name or email is answered 400 and nothing is
\* stored; a valid request stores the values the text stands for, the
\* current time when the date is absent and 0 when the total is absent.
C23_TextoOValor ==
    [][\A body \in BodiesRecibo : PostBoletas(body) =>
         /\ (TextoMalformado(body.comprador)
               \/ TextoMalformado(body.productos))
              => resp'.status = 400 /\ boleta' = boleta
         /\ CompradorIncompleto(body.comprador)
              => resp'.status = 400 /\ boleta' = boleta
         /\ (ListaNoVacia(body.productos)
               /\ CompradorCompleto(body.comprador))
              => /\ resp'.status = 201
                 /\ \E r \in boleta' :
                       /\ boleta' = boleta \cup {r}
                       /\ r \notin boleta
                       /\ r.comprador = Estructurado(body.comprador)
                       /\ r.productos = Estructurado(body.productos)
                       /\ body.fecha = Undefined => r.fecha = clock
                       /\ body.total = Undefined => r.total = Num(0)
                       /\ resp'.body.fecha = r.fecha
                       /\ resp'.body.total = Or(r.total, Num(0))]_vars

\* A receipt sent without date and total, after time has passed, was stored
\* with the current time and total 0.
C23_Witness ==
    /\ resp.op = "POST /boletas"
    /\ resp.status = 201
    /\ clock > 1
    /\ \E r \in boleta :
          /\ r.id = resp.body.id
          /\ r.fecha = clock
          /\ r.total = Num(0)
          /\ r.comprador = CompradorValido

-----------------------------------------------------------------------------
(* Uploaded images and the filenames multer stores them under.             *)

\* file.originalname of the uploads
Originales == {"a.png", "a b.png", "a_b.png"}

\* path.extname(file.originalname) || ""
ExtName(originalname) == ".png"

\* file.originalname.replace(/\s+/g, "_")
ReplaceEspacios(originalname) ==
    IF originalname = "a b.png" THEN "a_b.png" ELSE originalname

\* `${Date.now()}-${file.originalname.replace(/\s+/g, "_")}${ext}`
Filename(now, originalname) ==
    ToString(now) \o "-" \o ReplaceEspacios(originalname)
      \o ExtName(originalname)

\* Products are created and updated with an uploaded image as time passes;
\* requests that arrive within one millisecond run with no Tick between
\* them.
NextSubidas ==
    \/ \E o \in Originales :
          PostProductos(BodyVacio, File(Filename(clock, o)))
    \/ \E id \in ParamsProductoId, o \in Originales :
          PutProductos(id, BodyVacio, File(Filename(clock, o)))
    \/ Tick

SpecSubidas == InitCategorias /\ [][NextSubidas]_vars

\* C24: every uploaded product image is stored under a filename unique
\* among all uploads, so no two products point at the same stored file.
C24_NombresUnicos ==
    \A r1, r2 \in producto :
        r1.id # r2.id => r1.imagen_url # r2.imagen_url

-----------------------------------------------------------------------------
(* Control flow of the handlers: which statements send a response.         *)

\* The statements of a handler that matter to its responses.
\*   if (...) return res.status(s).json(...)
Si(s) == [k |-> "if", status |-> s, ret |-> TRUE, code |-> ""]
\*   await pool.query(...), its arguments included
Query == [k |-> "query", status |-> 0, ret |-> FALSE, code |-> ""]
\*   try { await pool.query(...) } catch (e) { console.warn(...) }
QueryTolerada == [k |-> "tolerada", status |-> 0, ret |-> FALSE, code |-> ""]
\*   res.status(s).json(...) as the last statement of its block
Send(s) == [k |-> "send", status |-> s, ret |-> FALSE, code |-> ""]
\*   return res.json(...)
ReturnSend(s) == [k |-> "send", status |-> s, ret |-> TRUE, code |-> ""]
\*   if (err.code === c) return res.status(s).json(...)
SiCode(c, s) == [k |-> "ifcode", status |-> s, ret |-> TRUE, code |-> c]

\* A handler none of whose responses is followed by a return.
NuncaRetorna(inst) == FALSE

\* The statement leaves the handler after responding.
Retorna(inst) == inst.ret

\* What a statement can throw: store errors and a TypeError of the
\* statement's own expressions.
Fallos == {"23505", "22P02", "08006", "TypeError"}

ProgramaBoletas(ruta) ==
    CASE ruta = "GET /boletas/numero/:numero" -> <<Query, Si(404), Send(200)>>
      [] ruta = "GET /boletas/:userId" -> <<Query, Send(200)>>
      [] ruta = "GET /boletas" -> <<Query, Send(200)>>
      [] ruta = "POST /boletas" ->
            <<Si(400), Si(400), Si(400), Si(400), Query, Send(201)>>
      [] ruta = "DELETE /boletas/:userId" -> <<Query, Send(200)>>

ProgramaCategorias(ruta) ==
    CASE ruta = "GET /categorias" -> <<Query, Send(200)>>
      [] ruta = "GET /categorias/nombres" -> <<Query, Send(200)>>
      [] ruta = "POST /categorias" -> <<Si(400), Query, Send(201)>>
      [] ruta = "POST /categorias/seed" ->
            <<Query, Query, Query, Query, Query, ReturnSend(200)>>
      [] ruta = "PUT /categorias/:id" ->
            <<Si(400), Query, Si(404), Send(200)>>
      [] ruta = "DELETE /categorias/:id" ->
            <<Query, Si(404), QueryTolerada, Query, Send(200)>>

ProgramaProductos(ruta) ==
    CASE ruta = "GET /productos" -> <<Query, Send(200)>>
      [] ruta = "GET /productos/categoria/:cat" -> <<Query, Send(200)>>
      [] ruta = "GET /productos/:id" -> <<Query, Si(404), Send(200)>>
      [] ruta = "POST /productos" -> <<Query, Send(201)>>
      [] ruta = "PUT /productos/:id" ->
            <<Si(400), Query, Si(404), Send(200)>>
      [] ruta = "DELETE /productos/:id" -> <<Query, Send(200)>>

\* verificarToken runs before the handlers of the two protected routes.
ProgramaUsuarios(ruta) ==
    CASE ruta = "POST /usuarios/register" -> <<Si(400), Query, Send(201)>>
      [] ruta = "POST /usuarios/login" -> <<Query, Si(401), Send(200)>>
      [] ruta = "GET /usuarios" -> <<Si(403), Si(401), Query, Send(200)>>
      [] ruta = "GET /usuarios/:id" ->
            <<Si(403), Si(401), Query, Si(404), Send(200)>>

ProgramaDetalle(ruta) ==
    CASE ruta = "GET /detalle/:numeroCompra" -> <<Query, Si(404), Send(200)>>
      [] ruta = "GET /detalle" -> <<Query, Send(200)>>

\* The statements of the route's handler, in order.
Programa(ruta) ==
    CASE ruta \in RutasBoletas -> ProgramaBoletas(ruta)
      [] ruta \in RutasCategorias -> ProgramaCategorias(ruta)
      [] ruta \in RutasProductos -> ProgramaProductos(ruta)
      [] ruta \in RutasUsuarios -> ProgramaUsuarios(ruta)
      [] ruta \in RutasDetalle -> ProgramaDetalle(ruta)

\* The statements of the route's catch block, in order.
ProgramaCatch(ruta) ==
    CASE ruta = "POST /boletas" -> <<SiCode("22P02", 400), Send(500)>>
      [] ruta \in {"POST /categorias", "PUT /categorias/:id",
                   "POST /usuarios/register"} ->
            <<SiCode("23505", 409), Send(500)>>
      [] OTHER -> <<Send(500)>>

\* A request being handled: the block it is in, the statement it is at, the
\* error caught, and the statuses of the responses sent so far.
Atencion(ruta) ==
    [op |-> ruta, fase |-> "try", pc |-> 1, err |-> "", enviadas |-> <<>>]
NadaEnCurso ==
    [op |-> "libre", fase |-> "fin", pc |-> 0, err |-> "", enviadas |-> <<>>]

Bloque(q) == IF q.fase = "try" THEN Programa(q.op) ELSE ProgramaCatch(q.op)

\* The statement the request is at.
Instr(q) == Bloque(q)[q.pc]

\* On to the next statement, or out of the handler after the last one.
Sigue(q) ==
    IF q.pc + 1 > Len(Bloque(q))
    THEN [q EXCEPT !.fase = "fin"]
    ELSE [q EXCEPT !.pc = q.pc + 1]

\* res.status(s).json(...), then return if the statement says so.
Responde(q) ==
    LET r == [q EXCEPT !.enviadas = Append(q.enviadas, Instr(q).status)] IN
    IF Retorna(Instr(q)) THEN [r EXCEPT !.fase = "fin"] ELSE Sigue(r)

EnMarcha(q) == q.op # "libre" /\ q.fase # "fin"

SoloAtencion == UNCHANGED <<categoria, categoria_id_seq, producto,
                            producto_id_seq, varsUsuarios, varsBoletas>>

\* A request arrives at a route.
AtiendeLlega(ruta) ==
    /\ enCurso[1].op = "libre"
    /\ enCurso' = <<Atencion(ruta)>>
    /\ resp' = NoResp
    /\ SoloAtencion

\* An if whose condition holds (responds) or does not.
AtiendeSi(cumple) ==
    LET q == enCurso[1] IN
    /\ EnMarcha(q)
    /\ Instr(q).k = "if"
    /\ enCurso' = <<IF cumple THEN Responde(q) ELSE Sigue(q)>>
    /\ resp' = NoResp
    /\ SoloAtencion

\* A statement returns, or throws into the catch block; the inner
\* try/catch of the category delete goes on either way.
AtiendeQuery(fallo) ==
    LET q == enCurso[1] IN
    /\ EnMarcha(q)
    /\ Instr(q).k \in {"query", "tolerada"}
    /\ enCurso' = <<IF fallo = "" \/ Instr(q).k = "tolerada"
                    THEN Sigue(q)
                    ELSE [q EXCEPT !.fase = "catch", !.pc = 1,
                                   !.err = fallo]>>
    /\ resp' = NoResp
    /\ SoloAtencion

\* if (err.code === c) return res.status(s).json(...)
AtiendeSiCode ==
    LET q == enCurso[1] IN
    /\ EnMarcha(q)
    /\ Instr(q).k = "ifcode"
    /\ enCurso' = <<IF q.err = Instr(q).code THEN Responde(q) ELSE Sigue(q)>>
    /\ resp' = NoResp
    /\ SoloAtencion

\* res.json(...) or res.status(s).json(...)
AtiendeSend ==
    LET q == enCurso[1] IN
    /\ EnMarcha(q)
    /\ Instr(q).k = "send"
    /\ enCurso' = <<Responde(q)>>
    /\ resp' = NoResp
    /\ SoloAtencion

\* The handler is left.
AtiendeFin ==
    LET q == enCurso[1] IN
    /\ q.op # "libre"
    /\ q.fase = "fin"
    /\ resp' = [op |-> q.op,
                status |-> IF q.enviadas = <<>> THEN 0 ELSE q.enviadas[1],
                err |-> q.err, enviadas |-> q.enviadas]
    /\ enCurso' = <<NadaEnCurso>>
    /\ SoloAtencion

InitAtencion ==
    /\ UsuariosVacio
    /\ BoletasVacio
    /\ categoria = {}
    /\ categoria_id_seq = 0
    /\ producto = {}
    /\ producto_id_seq = 0
    /\ enCurso = <<NadaEnCurso>>
    /\ resp = NoResp

NextAtencion ==
    \/ \E ruta \in Rutas : AtiendeLlega(ruta)
    \/ \E cumple \in BOOLEAN : AtiendeSi(cumple)
    \/ \E fallo \in Fallos \cup {""} : AtiendeQuery(fallo)
    \/ AtiendeSiCode
    \/ AtiendeSend
    \/ AtiendeFin

SpecAtencion == InitAtencion /\ [][NextAtencion]_vars

\* C25: every request to every route is answered exactly once on every
\* path of its handler: while it runs at most one response has been sent
\* and none is followed by another statement, and when the handler is left
\* exactly one response has been sent, whose status is the one the catch
\* block gives when a statement failed.
C25_UnaRespuesta ==
    /\ \A i \in DOMAIN enCurso :
          /\ Len(enCurso[i].enviadas) <= 1
          /\ enCurso[i].op # "libre" =>
                (enCurso[i].fase = "fin" <=> Len(enCurso[i].enviadas) = 1)
    /\ resp # NoResp =>
          /\ Len(resp.enviadas) = 1
          /\ resp.err # "" =>
                resp.status = Catch(resp.op, [code |-> resp.err,
                                              message |-> ""]).status

\* The category delete was answered once, from its catch block, after a
\* statement lost its connection.
C25_Witness ==
    /\ resp # NoResp
    /\ resp.op = "DELETE /categorias/:id"
    /\ resp.err = "08006"
    /\ resp.enviadas = <<500>>

-----------------------------------------------------------------------------
(* Two deletes of categories in flight at once.                            *)

Reposo == \A k \in DOMAIN enCurso : enCurso[k].op = "libre"

InitDoble ==
    /\ UsuariosVacio
    /\ BoletasVacio
    /\ categoria = {}
    /\ categoria_id_seq = 0
    /\ producto = {}
    /\ producto_id_seq = 0
    /\ enCurso = <<Libre, Libre>>
    /\ resp = NoResp

\* Categories and products are created while no delete is in flight; then
\* up to two deletes run, their statements interleaved in any order.
NextDoble ==
    \/ Reposo /\ \E body \in BodiesCascada : PostCategorias(body)
    \/ Reposo /\ \E body \in BodiesProductoCategoria :
                    PostProductos(body, NoFile)
    \/ \E i \in DOMAIN enCurso, id \in 1..MaxCatSeq :
          DeleteCategoriaLlega(i, id)
    \/ \E i \in DOMAIN enCurso : DeleteCategoriaSelect(i)
    \/ \E i \in DOMAIN enCurso : DeleteCategoriaLimpia(i)
    \/ \E i \in DOMAIN enCurso : DeleteCategoriaBorra(i)

SpecDoble == InitDoble /\ [][NextDoble]_vars

\* The store a single delete of category id, named nombre, leaves behind.
TrasUnBorrado(cat, prod, id, nombre) ==
    [categoria |-> {r \in cat : r.id # id},
     producto |-> {IF r.categoria = Str(nombre)
                   THEN [r EXCEPT !.categoria = Null] ELSE r : r \in prod}]

\* C26: two deletes of the same category that both looked the name up
\* before either deleted the row: a lookup that finds the row does not
\* answer 404, a delete past its lookup answers {ok: true} whether or not
\* the row is still there, every statement of either request keeps the
\* store within what a single delete leaves behind, and once both are done
\* the store is what a single delete leaves behind.
C26_DosBorrados ==
    /\ [][\A i \in DOMAIN enCurso :
            (DeleteCategoriaSelect(i)
               /\ \E r \in categoria : r.id = enCurso[i].id) =>
                  /\ resp' = NoResp
                  /\ enCurso'[i].pc = 2]_vars
    /\ [][\A i \in DOMAIN enCurso : DeleteCategoriaBorra(i) =>
            /\ resp'.status = 200
            /\ resp'.body = [ok |-> TRUE]
            /\ resp'.id = enCurso[i].id]_vars
    /\ [][\A i \in DOMAIN enCurso :
            (DeleteCategoriaLimpia(i) \/ DeleteCategoriaBorra(i)) =>
               TrasUnBorrado(categoria', producto',
                             enCurso[i].id, enCurso[i].nombre)
                 = TrasUnBorrado(categoria, producto,
                                 enCurso[i].id, enCurso[i].nombre)]_vars
    /\ []((Reposo /\ resp.op = "DELETE /categorias/:id"
                  /\ resp.status = 200) =>
            [categoria |-> categoria, producto |-> producto]
              = TrasUnBorrado(categoria, producto, resp.id, resp.nombre))

\* One of two deletes of the same category has answered {ok: true} and
\* removed the row; the other, past its lookup and its cleanup, is about to
\* run its DELETE statement.
C26_Witness ==
    /\ resp.op = "DELETE /categorias/:id"
    /\ resp.status = 200
    /\ \E j \in DOMAIN enCurso :
          /\ enCurso[j].op = "delete"
          /\ enCurso[j].pc = 3
          /\ enCurso[j].id = resp.id
          /\ enCurso[j].nombre = resp.nombre
    /\ \E r \in producto : r.categoria = Null
    /\ \E r \in producto : r.categoria \notin {Null, Str(resp.nombre)}

-----------------------------------------------------------------------------
(* Renaming a category and the products that name it.                      *)

\* Categories are created as Ropa and renamed to Hogar; products name
\* either or none; categories are deleted.
NextRenombre ==
    \/ PostCategorias([nombre |-> Str("Ropa")])
    \/ \E id \in 1..MaxCatSeq : PutCategorias(id, [nombre |-> Str("Hogar")])
    \/ \E body \in BodiesProductoCategoria : PostProductos(body, NoFile)
    \/ \E i \in DOMAIN enCurso, id \in 1..MaxCatSeq :
          DeleteCategoriaLlega(i, id)
    \/ \E i \in DOMAIN enCurso : DeleteCategoriaSelect(i)
    \/ \E i \in DOMAIN enCurso : DeleteCategoriaLimpia(i)
    \/ \E i \in DOMAIN enCurso : DeleteCategoriaBorra(i)

SpecRenombre == InitCategorias /\ [][NextRenombre]_vars

\* C27: PUT /categorias/:id changes only the row of that category and no
\* product, so products keep the old name; and a delete of the category
\* after the rename, run without interference, nulls exactly the products
\* that carry the new name and leaves those carrying the old one as they
\* were.
C27_RenombreSinCascada ==
    /\ [][\A id \in 1..MaxCatSeq :
            PutCategorias(id, [nombre |-> Str("Hogar")]) =>
               /\ producto' = producto
               /\ {r \in categoria' : r.id # id}
                    = {r \in categoria : r.id # id}
               /\ resp'.status = 200 =>
                     \E r \in categoria' : r.id = id /\ r.nombre = "Hogar"]_vars
    /\ [](DeleteSolo =>
            /\ \E c \in resp.antesCat :
                  c.id = resp.id /\ c.nombre = resp.nombre
            /\ producto =
                 {IF r.categoria = Str(resp.nombre)
                  THEN [r EXCEPT !.categoria = Null] ELSE r :
                     r \in resp.antesProd})

\* A category renamed from Ropa to Hogar was deleted: the product that
\* named Ropa still does, the product that named Hogar names none.
C27_Witness ==
    /\ DeleteSolo
    /\ resp.nombre = "Hogar"
    /\ \E r \in resp.antesProd : r.categoria = Str("Hogar")
    /\ \E r \in resp.antesProd :
          r.categoria = Str("Ropa") /\ r \in producto
    /\ ~\E c \in resp.antesCat : c.nombre = "Ropa"

-----------------------------------------------------------------------------
(* en_oferta on create and on update.                                      *)

\* Request bodies that carry a code and, under each code, one value of
\* en_oferta: "true", true, "1", 1, "false", null, or none.
BodiesOferta ==
    {[BodyVacio EXCEPT !.codigo = Str(p[1]), !.en_oferta = p[2]] :
        p \in {<<"t1", Str("true")>>, <<"t2", Bool(TRUE)>>,
               <<"u1", NumStr(1)>>, <<"u2", Num(1)>>,
               <<"f1", Str("false")>>, <<"n0", Null>>,
               <<"a0", Undefined>>}}

NextOferta ==
    \/ \E body \in BodiesOferta : PostProductos(body, NoFile)
    \/ \E id \in ParamsProductoId, body \in BodiesOferta :
          PutProductos(id, body, NoFile)

SpecOferta == InitCategorias /\ [][NextOferta]_vars

\* C28: PUT /productos/:id stores en_oferta, when the request carries it,
\* as true for "true" and true and as false for every other value, "1" and
\* 1 included, which POST /productos stores as true; when the request does
\* not carry it, the stored en_oferta stays as it was.
C28_OfertaAlActualizar ==
    /\ [][\A id \in ParamsProductoId, body \in BodiesOferta :
            (PutProductos(id, body, NoFile)
               /\ \E r \in producto : Num(r.id) = ToNumber(id)) =>
                  /\ resp'.status = 200
                  /\ \A r \in producto : Num(r.id) = ToNumber(id) =>
                        \E r2 \in producto' :
                           /\ r2.id = r.id
                           /\ r2.en_oferta =
                                IF body.en_oferta = Undefined
                                THEN r.en_oferta
                                ELSE Bool(body.en_oferta
                                            \in {Str("true"), Bool(TRUE)})
                           /\ resp'.body = r2]_vars
    /\ [][\A body \in BodiesOferta : PostProductos(body, NoFile) =>
            /\ resp'.status = 201
            /\ resp'.body.en_oferta =
                 Bool(body.en_oferta \in {Str("true"), Bool(TRUE),
                                          NumStr(1), Num(1)})
            /\ resp'.body \in producto']_vars

\* A product created on sale was updated with en_oferta "1" and is no
\* longer on sale.
C28_Witness ==
    /\ resp.op = "PUT /productos/:id"
    /\ resp.status = 200
    /\ resp.body.codigo = Str("u1")
    /\ resp.body.en_oferta = Bool(FALSE)
    /\ resp.body \in producto

====
